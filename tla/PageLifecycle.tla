---------------------------- MODULE PageLifecycle ----------------------------
(***************************************************************************)
(* The observations of one pending control request, as its gateway accepts *)
(* them: the host may repeat, skip, reorder or contradict itself, and the  *)
(* stored state alone decides.  The history variable log keeps what was    *)
(* accepted and when, so that the properties can speak of more than the    *)
(* two observations the code stores.                                       *)
(***************************************************************************)
EXTENDS PageObservations, Sequences

VARIABLES
    page,   \* the stored ControlPageObservationState
    now,    \* the gateway's clock, which accepts observations
    log     \* history: the accepted events and their acceptance times

vars == <<page, now, log>>

Entry == [event: Observation, time: Times]

Init ==
    /\ page = NoState
    /\ now = 0
    /\ log = <<>>

(* An exact replay is answered with the stored state; any other event is   *)
(* accepted while the request is not ended by a terminal one.              *)
Observe(o) ==
    \/ /\ Replay(page, o)
       /\ UNCHANGED vars
    \/ /\ ~Terminal(page.definitive)
       /\ Fresh(o, now)
       /\ Follows(page, o, now)
       /\ page' = Advance(page, o, now)
       /\ log' = Append(log, [event |-> o, time |-> now])
       /\ UNCHANGED now

Tick ==
    /\ now < MaxTime
    /\ now' = now + 1
    /\ UNCHANGED <<page, log>>

Next == Tick \/ \E o \in Observation : Observe(o)

Spec == Init /\ [][Next]_vars
-----------------------------------------------------------------------------
(* Properties *)

(* The stored state has the declared shape.                                *)
TypeOK ==
    /\ page \in ObservationState
    /\ now \in Times
    /\ log \in Seq(Entry)

Event(i) == log[i].event
Unknown(i) == Event(i).state = "unknown"
Candidate(i, o) ==
    /\ Event(i).state = "result_candidate"
    /\ Event(i).payload = o.payload /\ Event(i).response = o.response

(* A request ends with a result or a page failure only after the same      *)
(* completion of the same response stood unchallenged for the stability    *)
(* barrier on the gateway's clock: from some candidate c on, everything    *)
(* accepted repeated it or was inconclusive, and the final was observed    *)
(* later than the last of them.                                            *)
Stood(c, i) ==
    /\ Candidate(c, Event(i))
    /\ log[i].time - log[c].time >= Stability
    /\ \A k \in c..(i - 1) : Unknown(k) \/ Candidate(k, Event(i))
    /\ \E k \in c..(i - 1) :
          Candidate(k, Event(i)) /\ Event(k).at < Event(i).at

FinalIsStable ==
    \A i \in 1..Len(log) :
       Event(i).state = "final" => \E c \in 1..(i - 1) : Stood(c, i)

(* All observations of a request speak of one response: no later event     *)
(* replaces the response an earlier one identified.                        *)
OneResponse ==
    \A i, j \in 1..Len(log) :
       Event(i).response # None /\ Event(j).response # None =>
          Event(i).response = Event(j).response

(* No event about a response is accepted before the sending of the prompt  *)
(* was attempted and then confirmed.                                       *)
SendingProved ==
    \A i \in 1..Len(log) :
       Event(i).response # None =>
          \E a, s \in 1..(i - 1) :
             /\ a < s
             /\ Event(a).state = "send_attempted" /\ Event(s).state = "sent"
=============================================================================
