------------------------- MODULE PageLifecycleProofs -------------------------
(***************************************************************************)
(* Proofs about PageLifecycle for any responses, payloads and bounds.  The *)
(* stored state remembers two observations; each part of the inductive     *)
(* invariant says what they tell about everything accepted so far.         *)
(***************************************************************************)
EXTENDS PageLifecycle, TLAPS

Indices == 1..Len(log)

(* A standing candidate: since the recorded acceptance time nothing but    *)
(* the same completion of the same response was accepted.                  *)
CandidateStands ==
    page.definitive.state = "result_candidate" =>
       \E c \in Indices :
          /\ Candidate(c, page.definitive)
          /\ log[c].time = page.definitiveAccepted
          /\ \A k \in c..Len(log) : Unknown(k) \/ Candidate(k, page.definitive)
          /\ \E k \in c..Len(log) :
                Candidate(k, page.definitive) /\ Event(k).at = page.definitive.at

(* The definitive observation names the one response seen so far.          *)
DefinitiveResponse ==
    \A i \in Indices : Event(i).response # None =>
       \/ Terminal(page.definitive)
       \/ Event(i).response = page.definitive.response

(* How far the sending of the prompt is proved by the definitive state.    *)
DefinitiveSending ==
    /\ page.definitive.state = "send_attempted" =>
          \E a \in Indices : Event(a).state = "send_attempted"
    /\ page.definitive.state \in {"sent"} \cup ResponseStates \cup CompletionStates =>
          \E a, s \in Indices :
             /\ a < s
             /\ Event(a).state = "send_attempted" /\ Event(s).state = "sent"

Inv ==
    /\ TypeOK
    /\ CandidateStands /\ FinalIsStable
    /\ DefinitiveResponse /\ OneResponse
    /\ DefinitiveSending /\ SendingProved

-----------------------------------------------------------------------------
(* Accepting an observation appends it to the log and changes the stored   *)
(* state as advanceControlPageObservation does.                            *)
Accepts(o) ==
    /\ ~Terminal(page.definitive)
    /\ Follows(page, o, now)
    /\ page' = Advance(page, o, now)
    /\ log' = Append(log, [event |-> o, time |-> now])
    /\ UNCHANGED now

(* What the log looks like after an acceptance: one entry more, the others *)
(* in place.                                                               *)
LEMMA LogGrows ==
    ASSUME TypeOK, NEW o \in Observation, Accepts(o)
    PROVE  /\ Len(log) \in Nat
           /\ Len(log') = Len(log) + 1
           /\ \A i \in Indices : log'[i] = log[i]
           /\ log'[Len(log) + 1] = [event |-> o, time |-> now]
           /\ \A i \in Indices : log[i] \in Entry
  <1> DEFINE e == [event |-> o, time |-> now]
  <1>1. log \in Seq(Entry) /\ e \in Entry /\ log' = Append(log, e)
    BY DEF TypeOK, Accepts, Entry
  <1>2. log' \in Seq(Entry)
    BY <1>1
  <1> HIDE DEF e
  <1>3. Len(log) \in Nat /\ Len(log') = Len(log) + 1
    BY <1>1
  <1>4. \A i \in Indices : log'[i] = log[i] /\ log[i] \in Entry
    BY <1>1, <1>3 DEF Indices
  <1>5. log'[Len(log) + 1] = e
    BY <1>1, <1>3
  <1> QED  BY <1>3, <1>4, <1>5 DEF e

(* The same, without the entries.                                          *)
LEMMA LengthGrows ==
    ASSUME TypeOK, NEW o \in Observation, Accepts(o)
    PROVE  Len(log) \in Nat /\ Len(log') = Len(log) + 1
  BY LogGrows

(* The stored state after an acceptance, by the kind of the observation.   *)
LEMMA PageAdvances ==
    ASSUME TypeOK, NEW o \in Observation, Accepts(o)
    PROVE  /\ o.state = "unknown" =>
                /\ page'.definitive = page.definitive
                /\ page'.definitiveAccepted = page.definitiveAccepted
           /\ o.state # "unknown" =>
                /\ page'.definitive = o
                /\ ~SameCandidate(page, o) => page'.definitiveAccepted = now
                /\ SameCandidate(page, o) =>
                     page'.definitiveAccepted = page.definitiveAccepted
                /\ page.definitive.state \in Predecessors(o.state)
                /\ SameResponse(page.definitive, o)
                /\ o.state = "final" => Completes(page, o, now)
  BY DEF TypeOK, Accepts, Advance, ObservationState, Follows

(* Which fields an observation of each state has.                          *)
LEMMA ObservationFields ==
    ASSUME NEW o \in Observation
    PROVE  /\ o.state \in PromptStates \cup AbortStates => o.response = None
           /\ o.state \in CompletionStates => o.response \in Responses
           /\ o.response # None => o.state \in ResponseStates \cup CompletionStates
           /\ o.at \in Nat
           /\ o.state # None
  BY ObservationAssumption
     DEF Observation, PromptStates, AbortStates, ResponseStates,
         CompletionStates, None, Times
-----------------------------------------------------------------------------
(* The initial state satisfies the invariant: nothing is accepted yet.     *)
LEMMA InitInv == Init => Inv
  <1> SUFFICES ASSUME Init PROVE Inv
    OBVIOUS
  <1>1. TypeOK
    BY ObservationAssumption DEF Init, TypeOK, NoState, ObservationState, Times
  <1>2. Len(log) = 0 /\ page.definitive.state = None
    BY DEF Init, NoState, Nothing
  <1>3. CandidateStands /\ DefinitiveSending
    BY <1>2 DEF CandidateStands, DefinitiveSending, ResponseStates,
                CompletionStates, None
  <1>4. FinalIsStable /\ DefinitiveResponse /\ OneResponse /\ SendingProved
    BY <1>2 DEF FinalIsStable, DefinitiveResponse, OneResponse, SendingProved,
                Indices
  <1> QED  BY <1>1, <1>3, <1>4 DEF Inv

(* Acceptance keeps the type invariant.                                    *)
LEMMA TypeStep ==
    ASSUME TypeOK, NEW o \in Observation, Accepts(o)
    PROVE  TypeOK'
  <1>1. now \in Times /\ now' = now
    BY DEF TypeOK, Accepts
  <1>2. [event |-> o, time |-> now] \in Entry
    BY <1>1 DEF Entry
  <1>3. log' \in Seq(Entry)
    BY <1>2 DEF TypeOK, Accepts
  <1>4. page' \in ObservationState
    <2>1. page \in ObservationState /\ page' = Advance(page, o, now)
      BY DEF TypeOK, Accepts
    <2> QED  BY <2>1, <1>1 DEF Advance, ObservationState
  <1> QED  BY <1>1, <1>3, <1>4 DEF TypeOK

(* The accepted events, one by one: the old ones and the new one.          *)
LEMMA EventsGrow ==
    ASSUME TypeOK, NEW o \in Observation, Accepts(o)
    PROVE  \A i \in 1..Len(log') :
              \/ i \in 1..Len(log) /\ log'[i] = log[i]
              \/ i = Len(log) + 1 /\ log'[i].event = o /\ log'[i].time = now
  <1> TAKE i \in 1..Len(log')
  <1>1. i \in 1..Len(log) \/ i = Len(log) + 1
    BY LengthGrows
  <1>2. CASE i \in 1..Len(log)
    BY <1>2, LogGrows DEF Indices
  <1>3. CASE i = Len(log) + 1
    <2>1. log'[i] = [event |-> o, time |-> now]
      BY <1>3, LogGrows
    <2> QED  BY <1>3, <2>1
  <1> QED  BY <1>1, <1>2, <1>3

(* OneResponse, with what the definitive observation knows of it.          *)
LEMMA ResponseStep ==
    ASSUME TypeOK, DefinitiveResponse, OneResponse,
           NEW o \in Observation, Accepts(o)
    PROVE  DefinitiveResponse' /\ OneResponse'
  <1>2. ~Terminal(page.definitive)
    BY DEF Accepts
  <1>3. \A i \in 1..Len(log) : log[i].event.response # None =>
           log[i].event.response = page.definitive.response
    BY <1>2 DEF DefinitiveResponse, Indices, Event
  <1>4. CASE o.response = None
    <2>1. OneResponse'
      BY <1>3, <1>4, EventsGrow DEF OneResponse, Event
    <2>2. ASSUME \/ Terminal(page'.definitive)
                 \/ page'.definitive.response = page.definitive.response
                 \/ page.definitive.response = None
          PROVE  DefinitiveResponse'
      BY <1>3, <1>4, <2>2, EventsGrow DEF DefinitiveResponse, Indices, Event
    <2>3. CASE o.state = "unknown"
      BY <2>1, <2>2, <2>3, PageAdvances
    <2>4. CASE o.state \in AbortStates
      BY <2>1, <2>2, <2>4, PageAdvances DEF AbortStates, Terminal
    <2>5. CASE o.state \in {"send_attempted", "sent"}
      <3>1. page.definitive.state \in {None, "send_attempted"}
        BY <2>5, PageAdvances DEF Predecessors
      <3>2. page.definitive \in Observation \cup {Nothing}
        BY DEF TypeOK, ObservationState
      <3>3. page.definitive.response = None
        BY <3>1, <3>2, ObservationFields DEF PromptStates, Nothing
      <3> QED  BY <2>1, <2>2, <3>3
    <2>6. o.state \in PromptStates \cup AbortStates
      <3>1. \/ o.state \in PromptStates \cup AbortStates
            \/ o.response \in Responses
        BY DEF Observation
      <3> QED  BY <1>4, <3>1, ObservationAssumption DEF None
    <2> QED  BY <2>1, <2>3, <2>4, <2>5, <2>6 DEF PromptStates
  <1>5. CASE o.response # None
    <2>1. o.state # "unknown"
      BY <1>5, ObservationFields DEF ResponseStates, CompletionStates
    <2>2. page'.definitive = o
      BY <2>1, PageAdvances
    <2>3. \A i \in 1..Len(log) : log[i].event.response # None =>
             log[i].event.response = o.response
      BY <1>3, <1>5, <2>1, PageAdvances DEF SameResponse
    <2>4. OneResponse'
      BY <2>3, EventsGrow DEF OneResponse, Event
    <2>5. DefinitiveResponse'
      BY <2>2, <2>3, EventsGrow DEF DefinitiveResponse, Indices, Event
    <2> QED  BY <2>4, <2>5
  <1> QED  BY <1>4, <1>5

(* SendingProved, with how far the definitive state proves the sending.    *)
LEMMA SendingStep ==
    ASSUME TypeOK, DefinitiveSending, SendingProved,
           NEW o \in Observation, Accepts(o)
    PROVE  DefinitiveSending' /\ SendingProved'
  <1> DEFINE n == Len(log) + 1
             Proved(m) == \E a, s \in 1..m :
                /\ a < s
                /\ log[a].event.state = "send_attempted"
                /\ log[s].event.state = "sent"
  <1>1. /\ n \in Nat /\ Len(log') = n
        /\ \A i \in 1..Len(log) : log'[i] = log[i]
        /\ log'[n].event = o
    <2>1. log'[Len(log) + 1] = [event |-> o, time |-> now]
      BY LogGrows
    <2>2. log'[Len(log) + 1].event = o
      BY <2>1
    <2>3. n \in Nat /\ Len(log') = n
      BY LengthGrows
    <2>4. \A i \in 1..Len(log) : log'[i] = log[i]
      BY LogGrows DEF Indices
    <2> QED  BY <2>2, <2>3, <2>4
  <1>2. page.definitive.state \in {"sent"} \cup ResponseStates \cup CompletionStates
          => Proved(Len(log))
    BY DEF DefinitiveSending, Indices, Event
  <1>3. \A i \in 1..Len(log) : log[i].event.response # None => Proved(i - 1)
    BY DEF SendingProved, Event
  <1>4. o.response # None => Proved(Len(log))
    <2> SUFFICES ASSUME o.response # None PROVE Proved(Len(log))
      OBVIOUS
    <2>1. o.state \in ResponseStates \cup CompletionStates
      BY ObservationFields
    <2>2. page.definitive.state \in Predecessors(o.state) /\ o.state # "unknown"
      BY <2>1, PageAdvances DEF ResponseStates, CompletionStates
    <2> QED
      BY <1>2, <2>1, <2>2 DEF Predecessors, ResponseStates, CompletionStates
  <1>5. SendingProved'
    <2> SUFFICES ASSUME NEW i \in 1..Len(log'), log'[i].event.response # None
                 PROVE  \E a, s \in 1..(i - 1) :
                           /\ a < s
                           /\ log'[a].event.state = "send_attempted"
                           /\ log'[s].event.state = "sent"
      BY DEF SendingProved, Event
    <2>1. Proved(i - 1)
      BY <1>1, <1>3, <1>4, EventsGrow
    <2>2. PICK a, s \in 1..(i - 1) :
             /\ a < s
             /\ log[a].event.state = "send_attempted"
             /\ log[s].event.state = "sent"
      BY <2>1
    <2>3. a \in 1..Len(log) /\ s \in 1..Len(log)
      BY <1>1, LogGrows
    <2> QED  BY <1>1, <2>2, <2>3
  <1>6. DefinitiveSending'
    <2>1. CASE o.state = "unknown"
      <3>1. page'.definitive = page.definitive
        BY <2>1, PageAdvances
      <3> QED
        BY <1>1, <3>1, LogGrows DEF DefinitiveSending, Indices, Event
    <2>2. CASE o.state = "send_attempted"
      <3>1. page'.definitive = o
        BY <2>2, PageAdvances
      <3> QED
        BY <1>1, <2>2, <3>1
           DEF DefinitiveSending, Indices, Event, ResponseStates, CompletionStates
    <2>3. CASE o.state = "sent"
      <3>1. page'.definitive = o
        BY <2>3, PageAdvances
      <3>2. page.definitive.state = "send_attempted"
        BY <2>3, PageAdvances DEF Predecessors
      <3>3. PICK a \in 1..Len(log) : log[a].event.state = "send_attempted"
        BY <3>2 DEF DefinitiveSending, Indices, Event
      <3>4. /\ a \in 1..Len(log') /\ n \in 1..Len(log') /\ a < n
            /\ log'[a].event.state = "send_attempted"
            /\ log'[n].event.state = "sent"
        BY <1>1, <2>3, <3>3, LogGrows
      <3> QED
        BY <2>3, <3>1, <3>4 DEF DefinitiveSending, Indices, Event
    <2>4. CASE o.state \in ResponseStates \cup CompletionStates
      <3>1. o.state # "unknown" /\ o.state # "send_attempted"
        BY <2>4 DEF ResponseStates, CompletionStates
      <3>2. page'.definitive = o
        BY <3>1, PageAdvances
      <3>3. Proved(Len(log))
        <4>1. page.definitive.state \in Predecessors(o.state)
          BY <3>1, PageAdvances
        <4> QED
          BY <1>2, <2>4, <4>1 DEF Predecessors, ResponseStates, CompletionStates
      <3> QED
        BY <1>1, <3>1, <3>2, <3>3, LogGrows DEF DefinitiveSending, Indices, Event
    <2>5. CASE o.state \in AbortStates
      <3>1. page'.definitive = o
        BY <2>5, PageAdvances DEF AbortStates
      <3> QED
        BY <2>5, <3>1
           DEF DefinitiveSending, AbortStates, ResponseStates, CompletionStates
    <2> QED
      BY <2>1, <2>2, <2>3, <2>4, <2>5 DEF Observation, PromptStates
  <1> QED  BY <1>5, <1>6

(* A candidate keeps standing until a definitive event contradicts it.     *)
LEMMA CandidateStep ==
    ASSUME TypeOK, CandidateStands, NEW o \in Observation, Accepts(o)
    PROVE  CandidateStands'
  <1> SUFFICES ASSUME page'.definitive.state = "result_candidate"
               PROVE  \E c \in 1..Len(log') :
                  /\ log'[c].event.state = "result_candidate"
                  /\ log'[c].event.payload = page'.definitive.payload
                  /\ log'[c].event.response = page'.definitive.response
                  /\ log'[c].time = page'.definitiveAccepted
                  /\ \A k \in c..Len(log') :
                        \/ log'[k].event.state = "unknown"
                        \/ /\ log'[k].event.state = "result_candidate"
                           /\ log'[k].event.payload = page'.definitive.payload
                           /\ log'[k].event.response = page'.definitive.response
                  /\ \E k \in c..Len(log') :
                        /\ log'[k].event.state = "result_candidate"
                        /\ log'[k].event.payload = page'.definitive.payload
                        /\ log'[k].event.response = page'.definitive.response
                        /\ log'[k].event.at = page'.definitive.at
    BY DEF CandidateStands, Indices, Candidate, Unknown, Event
  <1> DEFINE n == Len(log) + 1
  <1>1. n \in Nat /\ Len(log) \in Nat /\ Len(log') = n /\ n \in 1..Len(log')
    BY LengthGrows
  <1>2. \A i \in 1..Len(log) : log'[i] = log[i]
    BY LogGrows DEF Indices
  <1>3. log'[n].event = o /\ log'[n].time = now
    <2>1. log'[Len(log) + 1] = [event |-> o, time |-> now]
      BY LogGrows
    <2> QED  BY <2>1
  <1> HIDE DEF n
  <1>4. ASSUME page.definitive.state = "result_candidate"
        PROVE  \E c \in 1..Len(log) :
                  /\ log[c].event.state = "result_candidate"
                  /\ log[c].event.payload = page.definitive.payload
                  /\ log[c].event.response = page.definitive.response
                  /\ log[c].time = page.definitiveAccepted
                  /\ \A k \in c..Len(log) :
                        \/ log[k].event.state = "unknown"
                        \/ /\ log[k].event.state = "result_candidate"
                           /\ log[k].event.payload = page.definitive.payload
                           /\ log[k].event.response = page.definitive.response
                  /\ \E k \in c..Len(log) :
                        /\ log[k].event.state = "result_candidate"
                        /\ log[k].event.payload = page.definitive.payload
                        /\ log[k].event.response = page.definitive.response
                        /\ log[k].event.at = page.definitive.at
    BY <1>4 DEF CandidateStands, Indices, Candidate, Unknown, Event
  <1>5. CASE o.state = "unknown"
    <2>1. /\ page'.definitive = page.definitive
          /\ page'.definitiveAccepted = page.definitiveAccepted
      BY <1>5, PageAdvances
    <2>2. PICK c \in 1..Len(log) :
             /\ log[c].event.state = "result_candidate"
             /\ log[c].event.payload = page.definitive.payload
             /\ log[c].event.response = page.definitive.response
             /\ log[c].time = page.definitiveAccepted
             /\ \A k \in c..Len(log) :
                   \/ log[k].event.state = "unknown"
                   \/ /\ log[k].event.state = "result_candidate"
                      /\ log[k].event.payload = page.definitive.payload
                      /\ log[k].event.response = page.definitive.response
             /\ \E k \in c..Len(log) :
                   /\ log[k].event.state = "result_candidate"
                   /\ log[k].event.payload = page.definitive.payload
                   /\ log[k].event.response = page.definitive.response
                   /\ log[k].event.at = page.definitive.at
      BY <1>4, <2>1
    <2>3. c \in 1..Len(log') /\ c..Len(log') = (c..Len(log)) \cup {n}
      BY <1>1 DEF n
    <2>4. \A k \in c..Len(log) : log'[k] = log[k]
      BY <1>1, <1>2
    <2> QED  BY <1>2, <1>3, <1>5, <2>1, <2>2, <2>3, <2>4
  <1>6. CASE o.state # "unknown" /\ SameCandidate(page, o)
    <2>1. /\ page'.definitive = o
          /\ page'.definitiveAccepted = page.definitiveAccepted
          /\ o.response = page.definitive.response
      <3>1. o.response # None /\ page.definitive.response # None
        <4>1. page.definitive \in Observation
          BY <1>6 DEF TypeOK, ObservationState, SameCandidate, Nothing, None
        <4> QED
          BY <1>6, <4>1, ObservationFields, ObservationAssumption
             DEF SameCandidate, CompletionStates, None
      <3> QED  BY <1>6, <3>1, PageAdvances DEF SameResponse
    <2> QED
      BY <1>1, <1>2, <1>3, <1>4, <1>6, <2>1 DEF n, SameCandidate
  <1>7. CASE o.state # "unknown" /\ ~SameCandidate(page, o)
    <2>1. page'.definitive = o /\ page'.definitiveAccepted = now
      BY <1>7, PageAdvances
    <2> QED  BY <1>1, <1>3, <2>1
  <1> QED  BY <1>5, <1>6, <1>7

(* Every final in the log ended a candidate that had stood long enough.    *)
LEMMA FinalStep ==
    ASSUME TypeOK, CandidateStands, FinalIsStable,
           NEW o \in Observation, Accepts(o)
    PROVE  FinalIsStable'
  <1> DEFINE n == Len(log) + 1
             StoodIn(l, c, i) ==
                /\ l[c].event.state = "result_candidate"
                /\ l[c].event.payload = l[i].event.payload
                /\ l[c].event.response = l[i].event.response
                /\ l[i].time - l[c].time >= Stability
                /\ \A k \in c..(i - 1) :
                      \/ l[k].event.state = "unknown"
                      \/ /\ l[k].event.state = "result_candidate"
                         /\ l[k].event.payload = l[i].event.payload
                         /\ l[k].event.response = l[i].event.response
                /\ \E k \in c..(i - 1) :
                      /\ l[k].event.state = "result_candidate"
                      /\ l[k].event.payload = l[i].event.payload
                      /\ l[k].event.response = l[i].event.response
                      /\ l[k].event.at < l[i].event.at
  <1>1. n \in Nat /\ Len(log) \in Nat /\ Len(log') = n /\ n \in 1..Len(log')
    BY LengthGrows
  <1>2. \A i \in 1..Len(log) : log'[i] = log[i]
    BY LogGrows DEF Indices
  <1>3. log'[n].event = o /\ log'[n].time = now
    <2>1. log'[Len(log) + 1] = [event |-> o, time |-> now]
      BY LogGrows
    <2> QED  BY <2>1
  <1> SUFFICES ASSUME NEW i \in 1..Len(log'), log'[i].event.state = "final"
               PROVE  \E c \in 1..(i - 1) : StoodIn(log', c, i)
    BY DEF FinalIsStable, Stood, Candidate, Unknown, Event
  <1>4. CASE i \in 1..Len(log)
    <2>1. log[i].event.state = "final"
      BY <1>2, <1>4
    <2>2. PICK c \in 1..(i - 1) : StoodIn(log, c, i)
      BY <1>4, <2>1 DEF FinalIsStable, Stood, Candidate, Unknown, Event
    <2>3. \A k \in c..i : log'[k] = log[k]
      BY <1>1, <1>2, <1>4
    <2>4. StoodIn(log', c, i)
      BY <1>1, <1>4, <2>2, <2>3
    <2> QED  BY <2>4
  <1>5. CASE i = n
    <2>1. o.state = "final"
      BY <1>3, <1>5
    <2>2. /\ page.definitive.state = "result_candidate"
          /\ SameResponse(page.definitive, o)
          /\ Completes(page, o, now)
      BY <2>1, PageAdvances DEF Predecessors
    <2>3. page.definitive.response = o.response
      <3>1. page.definitive \in Observation
        BY <2>2 DEF TypeOK, ObservationState, Nothing, None
      <3>2. o.response # None /\ page.definitive.response # None
        BY <2>1, <2>2, <3>1, ObservationFields, ObservationAssumption
           DEF CompletionStates, None
      <3> QED  BY <2>2, <3>2 DEF SameResponse
    <2>4. PICK c \in 1..Len(log) :
             /\ log[c].event.state = "result_candidate"
             /\ log[c].event.payload = page.definitive.payload
             /\ log[c].event.response = page.definitive.response
             /\ log[c].time = page.definitiveAccepted
             /\ \A k \in c..Len(log) :
                   \/ log[k].event.state = "unknown"
                   \/ /\ log[k].event.state = "result_candidate"
                      /\ log[k].event.payload = page.definitive.payload
                      /\ log[k].event.response = page.definitive.response
             /\ \E k \in c..Len(log) :
                   /\ log[k].event.state = "result_candidate"
                   /\ log[k].event.payload = page.definitive.payload
                   /\ log[k].event.response = page.definitive.response
                   /\ log[k].event.at = page.definitive.at
      BY <2>2 DEF CandidateStands, Indices, Candidate, Unknown, Event
    <2>5. i - 1 = Len(log) /\ c \in 1..(i - 1)
      BY <1>1, <1>5
    <2>6. StoodIn(log', c, i)
      <3> HIDE DEF n
      <3>1. log'[i].event = o /\ log'[i].time = now
        BY <1>3, <1>5
      <3>2. /\ o.payload = page.definitive.payload
            /\ o.at > page.definitive.at
            /\ now - page.definitiveAccepted >= Stability
        BY <2>2 DEF Completes
      <3>3. \A k \in c..(i - 1) : log'[k] = log[k]
        BY <1>2, <2>5
      <3>4. c \in c..(i - 1)
        BY <2>5
      <3>5. \A k \in c..(i - 1) :
               \/ log'[k].event.state = "unknown"
               \/ /\ log'[k].event.state = "result_candidate"
                  /\ log'[k].event.payload = log'[i].event.payload
                  /\ log'[k].event.response = log'[i].event.response
        BY <2>3, <2>4, <2>5, <3>1, <3>2, <3>3
      <3>6. \E k \in c..(i - 1) :
               /\ log'[k].event.state = "result_candidate"
               /\ log'[k].event.payload = log'[i].event.payload
               /\ log'[k].event.response = log'[i].event.response
               /\ log'[k].event.at < log'[i].event.at
        <4>1. PICK k \in c..(i - 1) :
                 /\ log[k].event.state = "result_candidate"
                 /\ log[k].event.payload = page.definitive.payload
                 /\ log[k].event.response = page.definitive.response
                 /\ log[k].event.at = page.definitive.at
          BY <2>4, <2>5
        <4>2. log'[k] = log[k]
          BY <3>3, <4>1
        <4>3. log'[k].event.at < log'[i].event.at
          BY <3>1, <3>2, <4>1, <4>2, ObservationFields
        <4> QED  BY <2>3, <3>1, <3>2, <4>1, <4>2, <4>3
      <3> QED  BY <2>3, <2>4, <3>1, <3>2, <3>3, <3>4, <3>5, <3>6
    <2> QED  BY <2>5, <2>6
  <1>6. i \in 1..Len(log) \/ i = n
    BY <1>1
  <1> QED  BY <1>4, <1>5, <1>6
-----------------------------------------------------------------------------
(* Every step keeps the invariant: replays and the clock change nothing it *)
(* speaks of but the clock's type.                                         *)
LEMMA StepInv == Inv /\ [Next]_vars => Inv'
  <1> SUFFICES ASSUME Inv, [Next]_vars PROVE Inv'
    OBVIOUS
  <1>1. CASE UNCHANGED <<page, log>> /\ now' \in Times
    BY <1>1
       DEF Inv, TypeOK, CandidateStands, FinalIsStable, DefinitiveResponse,
           OneResponse, DefinitiveSending, SendingProved, Indices, Event,
           Unknown, Candidate, Stood
  <1>2. ASSUME NEW o \in Observation, Accepts(o)
        PROVE  Inv'
    BY <1>2, TypeStep, ResponseStep, SendingStep, CandidateStep, FinalStep DEF Inv
  <1>3. CASE Tick
    <2>1. now' \in Times
      BY <1>3, ObservationAssumption DEF Tick, Times, Inv, TypeOK
    <2> QED  BY <1>1, <1>3, <2>1 DEF Tick
  <1>4. ASSUME NEW o \in Observation, Observe(o)
        PROVE  Inv'
    BY <1>1, <1>2, <1>4 DEF Observe, Accepts, vars, Inv, TypeOK
  <1>5. CASE UNCHANGED vars
    BY <1>1, <1>5 DEF vars, Inv, TypeOK
  <1> QED  BY <1>3, <1>4, <1>5 DEF Next

(* The inductive invariant holds of every reachable state.                 *)
THEOREM Invariant == Spec => []Inv
  BY InitInv, StepInv, PTL DEF Spec

(* The stored state keeps its shape.                                       *)
THEOREM TypeCorrect == Spec => []TypeOK
  BY Invariant, PTL DEF Inv

(* A request only ever ends with a completion that stood, unchallenged and *)
(* of one response, for the whole stability barrier.                       *)
THEOREM StabilityTheorem == Spec => []FinalIsStable
  BY Invariant, PTL DEF Inv

(* No observation accepted for a request replaces its response.            *)
THEOREM ResponseTheorem == Spec => []OneResponse
  BY Invariant, PTL DEF Inv

(* No event about a response is accepted without proof of the sending.     *)
THEOREM SendingTheorem == Spec => []SendingProved
  BY Invariant, PTL DEF Inv
=============================================================================
