-------------------------- MODULE PageObservations --------------------------
(***************************************************************************)
(* The lifecycle of the page observations of one control request           *)
(* (control/wait-policy.ts): which observation may follow the stored ones, *)
(* what is stored then, and which of them ends the request.                *)
(*                                                                         *)
(* An observation carries the host's sequence number and time (at), the    *)
(* identity of the response it saw and, for a candidate or a final, the    *)
(* completion payload: a result or a page failure.  The identity stands    *)
(* for the response id together with the page URL.  The request, the tab   *)
(* and the page generation, on which every observation must agree with the *)
(* request, are compared before an observation gets here.                  *)
(***************************************************************************)
EXTENDS Integers

CONSTANTS
    Responses,     \* identities of assistant responses
    Results,       \* result payloads of a kind the request's phase allows
    Failures,      \* page failures that pass the completion barrier
    Stability,     \* CONTROL_RESULT_FINAL_STABILITY_MS in clock units
    ObservationAge, ObservationSkew,  \* how old, how far ahead "at" may be
    MaxSeq,        \* bound on the host's observation sequence
    MaxTime        \* bound on the clock

ASSUME ObservationAssumption ==
    /\ Stability \in Nat \ {0} /\ MaxSeq \in Nat /\ MaxTime \in Nat
    /\ ObservationAge \in Nat /\ ObservationSkew \in Nat
    /\ Results \cap Failures = {}
    /\ "none" \notin Responses \cup Results \cup Failures

None == "none"
Payloads == Results \cup Failures
Times == 0..MaxTime

(* States without a response, with one, and with a completion payload      *)
PromptStates == {"send_attempted", "sent", "unknown"}
AbortStates == {"response_start_failed", "page_lost", "authority_invalid"}
ResponseStates == {"response_created", "generating"}
CompletionStates == {"result_candidate", "final"}

Seqs == 1..MaxSeq
Observation ==
    [state: PromptStates \cup AbortStates, seq: Seqs, at: Times,
     response: {None}, payload: {None}]
    \cup
    [state: ResponseStates, seq: Seqs, at: Times,
     response: Responses, payload: {None}]
    \cup
    [state: CompletionStates, seq: Seqs, at: Times,
     response: Responses, payload: Payloads]

(* ControlPageObservationState, or nothing stored yet                      *)
Nothing == [state |-> None, seq |-> 0, at |-> 0, response |-> None, payload |-> None]
NoState == [latest |-> Nothing, definitive |-> Nothing,
            latestAccepted |-> 0, definitiveAccepted |-> 0]
ObservationState ==
    [latest: Observation \cup {Nothing}, definitive: Observation \cup {Nothing},
     latestAccepted: Times, definitiveAccepted: Times]

(* A first observation is at most 60 s old and 5 s ahead of the gateway    *)
Fresh(o, time) == o.at >= time - ObservationAge /\ o.at <= time + ObservationSkew

Terminal(o) == o.state \in AbortStates \cup {"final"}

PredecessorsUnsent(state) ==      \* fault: a response is proof of sending
    IF state \in {"send_attempted"} THEN {None}
    ELSE {None} \cup PromptStates \cup ResponseStates \cup CompletionStates

(* Page loss and an invalid authority end a request from every state       *)
Predecessors(state) ==
    CASE state = "send_attempted" -> {None}
      [] state = "sent" -> {"send_attempted"}
      [] state = "response_start_failed" -> {"send_attempted", "sent"}
      [] state = "response_created" -> {"sent"}
      [] state \in {"generating", "result_candidate"} ->
            {"sent", "response_created", "generating", "result_candidate"}
      [] state = "final" -> {"result_candidate"}
      [] OTHER -> PromptStates \cup AbortStates \cup ResponseStates
                    \cup CompletionStates \cup {None}

SameResponseOfCompletions(prior, o) ==      \* fault: only candidates compared
    o.payload # None /\ prior.payload # None => o.response = prior.response

SameResponse(prior, o) ==
    o.response # None /\ prior.response # None => o.response = prior.response

CompletesWithAnyPayload(p, o, time) ==      \* fault: payloads not compared
    /\ o.at > p.definitive.at
    /\ time - p.definitiveAccepted >= Stability

(* A final repeats its candidate, was seen later by the host, and arrives  *)
(* no sooner than the stability barrier after the candidate was accepted.  *)
Completes(p, o, time) ==
    /\ o.payload = p.definitive.payload
    /\ o.at > p.definitive.at
    /\ time - p.definitiveAccepted >= Stability

(* advanceControlPageObservation at the gateway's time: an exact replay of *)
(* the latest event, or a new event that follows the lifecycle.            *)
Replay(p, o) == o = p.latest

Follows(p, o, time) ==
    /\ o.seq > p.latest.seq
    /\ \/ o.state = "unknown"
       \/ /\ p.definitive.state \in Predecessors(o.state)
          /\ SameResponse(p.definitive, o)
          /\ o.state = "final" => Completes(p, o, time)

SameCandidateOfAnyPayload(p, o) ==      \* fault: payloads not compared
    o.state = "result_candidate" /\ p.definitive.state = "result_candidate"

SameCandidate(p, o) ==
    /\ o.state = "result_candidate" /\ p.definitive.state = "result_candidate"
    /\ o.payload = p.definitive.payload

AdvanceToDeadline(p, o, time) ==      \* fault: stores when a final may come
    IF o.state = "unknown"
    THEN [p EXCEPT !.latest = o, !.latestAccepted = time]
    ELSE [latest |-> o, definitive |-> o, latestAccepted |-> time,
          definitiveAccepted |->
             IF SameCandidate(p, o) THEN p.definitiveAccepted
             ELSE time + Stability]

(* An unknown observation leaves the definitive one in place; a repeated   *)
(* candidate keeps the acceptance time of the first.                       *)
Advance(p, o, time) ==
    IF o.state = "unknown"
    THEN [p EXCEPT !.latest = o, !.latestAccepted = time]
    ELSE [latest |-> o, definitive |-> o, latestAccepted |-> time,
          definitiveAccepted |->
             IF SameCandidate(p, o) THEN p.definitiveAccepted ELSE time]

(* parseLateControlPageObservation: a final that is evidence only needs    *)
(* the prompt's page and response, not a candidate.  A lost page has no    *)
(* URL to match; for an invalid authority the host may give one.           *)
LateEvidence(p, o) ==
    /\ o.state = "final"
    /\ p.definitive # Nothing
    /\ p.definitive.state # "page_lost"
    /\ SameResponse(p.definitive, o)
    /\ o.seq > p.latest.seq
    /\ o.at > p.definitive.at
=============================================================================
