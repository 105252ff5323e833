------------------------- MODULE LookupFlightProofs -------------------------
(***************************************************************************)
(* For any number of members and of overlapping lookups of one key: at     *)
(* most one of those registered in the map fetches, a refused member gets  *)
(* his own refusal, and an own character's lookup joins only a flight that *)
(* was asked for crowd control.                                            *)
(* The argument follows what a name may refer to: the flight a call awaits *)
(* and the one a key of the map names were started and not yet forgotten,  *)
(* and a joiner's slot holds no flight until he retries.                   *)
(***************************************************************************)
EXTENDS LookupFlight, TLAPS

-----------------------------------------------------------------------------
(* The inductive invariant                                                  *)

Awaiting(c) == call[c].phase \in {"waiting", "retrying"}
Started(f) == flight[f].phase # "none"

\* A free slot, and a joiner's one, holds no flight; who retries awaits his own.
SlotFree == \A c \in Call : call[c].phase = "idle" => ~Started(c)
JoinerFree == \A c \in Call : call[c].phase = "waiting" /\ call[c].on # c => ~Started(c)
RetriesOwn == \A c \in Call : call[c].phase = "retrying" => call[c].on = c

\* What a call awaits was started, for crowd control if the call wants it.
AwaitsStarted ==
    \A c \in Call : Awaiting(c) =>
        Started(call[c].on) /\ (call[c].control => flight[call[c].on].control)

\* What the map names was started for that key.
MapNamesStarted ==
    \A control \in BOOLEAN : inflight[control] # NoCall =>
        Started(inflight[control]) /\ flight[inflight[control]].control = control

\* A lookup that joined nothing, and is no Refresh, is the one the map names.
RegisteredNamed == \A c \in Call : Registered(c) => inflight[flight[c].control] = c

IInv ==
    /\ TypeOK
    /\ SlotFree /\ JoinerFree /\ RetriesOwn
    /\ AwaitsStarted /\ MapNamesStarted /\ RegisteredNamed
    /\ OwnRefusal /\ ControlServed /\ KeyFreed

-----------------------------------------------------------------------------
(* The steps of a flight                                                    *)

\* f goes on: another phase of the same flight, settled or not.
GoesOn(f) ==
    /\ Running(f)
    /\ \E n \in Flights :
         /\ flight' = [flight EXCEPT ![f] = n]
         /\ n.phase \notin {"none", "gone"} /\ n.control = flight[f].control
         /\ n.phase \in {"start", "rankings", "enrich"} => n.refresh = flight[f].refresh
    /\ UNCHANGED <<call, inflight>>
    /\ {kept', stored', storedControl'} \subseteq BOOLEAN

LEMMA SettleGoesOn ==
    ASSUME TypeOK, NEW f \in Call, NEW outcome \in {"ok", "refused", "failed"},
           Running(f), Settle(f, outcome), UNCHANGED <<call, inflight>>,
           {kept', stored', storedControl'} \subseteq BOOLEAN
    PROVE  GoesOn(f)
<1>. DEFINE n == [phase |-> "settled", control |-> flight[f].control, fetchControl |-> FALSE,
                  refresh |-> FALSE, outcome |-> outcome]
<1>1. n \in Flights
    BY DEF TypeOK, Flights, Outcomes
<1>2. flight' = [flight EXCEPT ![f] = n]
    BY DEF Settle
<1>3. n.phase = "settled" /\ n.control = flight[f].control
    OBVIOUS
<1>. HIDE DEF n
<1>. QED
    BY <1>1, <1>2, <1>3 DEF GoesOn

LEMMA FetchGoesOn ==
    ASSUME TypeOK, NEW f \in Call, NEW phase \in {"rankings", "enrich"}, NEW control \in BOOLEAN,
           Running(f), GoOn(f, phase, control), UNCHANGED <<call, inflight>>,
           {kept', stored', storedControl'} \subseteq BOOLEAN
    PROVE  GoesOn(f)
<1>. DEFINE n == [phase |-> phase, control |-> flight[f].control, fetchControl |-> control,
                  refresh |-> flight[f].refresh, outcome |-> "none"]
<1>1. n \in Flights
    BY DEF TypeOK, Flights, Outcomes
<1>2. flight' = [flight EXCEPT ![f] = n]
    BY DEF GoOn
<1>3. n.phase \in {"rankings", "enrich"} /\ n.control = flight[f].control /\ n.refresh = flight[f].refresh
    OBVIOUS
<1>. HIDE DEF n
<1>. QED
    BY <1>1, <1>2, <1>3 DEF GoesOn

LEMMA AnalyseGoesOn ==
    ASSUME TypeOK, NEW f \in Call, Running(f), Analyse(f),
           UNCHANGED <<call, inflight, stored, storedControl>>
    PROVE  GoesOn(f)
<1>1. {kept, stored, storedControl} \subseteq BOOLEAN /\ flight[f].fetchControl \in BOOLEAN
    BY DEF TypeOK, Flights
<1>2. CASE \E outcome \in {"failed", "refused"} : Settle(f, outcome) /\ kept' \in BOOLEAN
    BY <1>1, <1>2, SettleGoesOn
<1>3. CASE \E control \in BOOLEAN : GoOn(f, "enrich", control) /\ kept' = FALSE
    BY <1>1, <1>3, FetchGoesOn
<1>. QED
    BY <1>1, <1>2, <1>3 DEF Analyse, Enrichment

\* Begin, Rankings and Enrich are such steps.
LEMMA FlightGoesOn ==
    ASSUME TypeOK, NEW f \in Call, Begin(f) \/ Rankings(f) \/ Enrich(f)
    PROVE  GoesOn(f)
<1>0. {kept, stored, storedControl} \subseteq BOOLEAN /\ flight[f].fetchControl \in BOOLEAN
    BY DEF TypeOK, Flights
<1>1. CASE Begin(f)
  <2>1. Running(f) /\ UNCHANGED <<call, inflight, stored, storedControl>>
    BY <1>1 DEF Begin, Running
  <2>2. CASE Analyse(f)
    BY <2>1, <2>2, AnalyseGoesOn
  <2>3. CASE Settle(f, "refused") /\ UNCHANGED kept
    BY <1>0, <2>1, <2>3, SettleGoesOn
  <2>4. CASE GoOn(f, "rankings", flight[f].fetchControl) /\ UNCHANGED kept
    BY <1>0, <2>1, <2>4, FetchGoesOn
  <2>. QED
    BY <1>1, <2>2, <2>3, <2>4 DEF Begin
<1>2. CASE Rankings(f)
  <2>1. Running(f) /\ UNCHANGED <<call, inflight, stored, storedControl>>
    BY <1>2 DEF Rankings, Running
  <2>2. CASE Analyse(f)
    BY <2>1, <2>2, AnalyseGoesOn
  <2>3. CASE Settle(f, "failed") /\ UNCHANGED kept
    BY <1>0, <2>1, <2>3, SettleGoesOn
  <2>. QED
    BY <1>2, <2>2, <2>3 DEF Rankings
<1>3. CASE Enrich(f)
  <2>1. Running(f) /\ \E outcome \in {"ok", "failed"} : Settle(f, outcome)
    BY <1>3 DEF Enrich, Running
  <2>2. UNCHANGED <<call, inflight>> /\ {kept', stored', storedControl'} \subseteq BOOLEAN
    BY <1>0, <1>3 DEF Enrich
  <2>. QED
    BY <2>1, <2>2, SettleGoesOn
<1>. QED
    BY <1>1, <1>2, <1>3

-----------------------------------------------------------------------------
(* Type correctness                                                         *)

LEMMA NewRecords ==
    ASSUME NEW c \in Call, NEW phase \in {"waiting", "retrying"}, NEW control \in BOOLEAN,
           NEW refresh \in BOOLEAN, NEW on \in Call
    PROVE  /\ Asking(c, phase, control, on) \in Calls
           /\ NewFlight(control, refresh) \in Flights
           /\ IdleCall(c) \in Calls
           /\ NoFlight \in Flights
    BY FlightConstants DEF FlightConstants, Asking, Calls, Outcomes, NewFlight, Flights,
        IdleCall, NoFlight

\* The flight a lookup may join is one the map names.
LEMMA JoinableNamed ==
    ASSUME TypeOK, NEW control \in BOOLEAN
    PROVE  /\ Joinable(control) \in Call \union {NoCall}
           /\ Joinable(control) # NoCall =>
                \E key \in BOOLEAN : inflight[key] = Joinable(control) /\ (control => key)
           /\ Joinable(control) = NoCall => inflight[control] = NoCall
    BY DEF TypeOK, Joinable

LEMMA TypeNext ==
    ASSUME TypeOK, [Next]_vars
    PROVE  TypeOK'
<1>. USE FlightConstants DEF FlightConstants
<1>1. ASSUME NEW f \in Call, Begin(f) \/ Rankings(f) \/ Enrich(f) PROVE TypeOK'
  <2>1. GoesOn(f)
    BY <1>1, FlightGoesOn
  <2>. QED
    BY <2>1 DEF GoesOn, TypeOK
<1>2. ASSUME NEW c \in Call, NEW control \in BOOLEAN, NEW refresh \in BOOLEAN,
             Start(c, control, refresh)
      PROVE  TypeOK'
  <2>1. ASSUME NEW joined \in Call, call' = [call EXCEPT ![c] = Asking(c, "waiting", control, joined)]
        PROVE  call' \in [Call -> Calls]
    BY <2>1, NewRecords DEF TypeOK
  <2>2. flight' = [flight EXCEPT ![c] = NewFlight(control, refresh)] => flight' \in [Call -> Flights]
    BY NewRecords DEF TypeOK
  <2>3. CASE refresh \/ Joinable(control) = NoCall
    <3>1. /\ call' = [call EXCEPT ![c] = Asking(c, "waiting", control, c)]
          /\ flight' = [flight EXCEPT ![c] = NewFlight(control, refresh)]
          /\ inflight' = [inflight EXCEPT ![control] = IF @ = NoCall THEN c ELSE @]
        BY <1>2, <2>3 DEF Start
    <3>2. inflight' \in [BOOLEAN -> Call \union {NoCall}]
        BY <3>1 DEF TypeOK
    <3>. QED
        BY <1>2, <2>1, <2>2, <3>1, <3>2 DEF Start, TypeOK
  <2>4. CASE ~refresh /\ Joinable(control) # NoCall
    <3>1. /\ call' = [call EXCEPT ![c] = Asking(c, "waiting", control, Joinable(control))]
          /\ UNCHANGED <<flight, inflight>>
        BY <1>2, <2>4 DEF Start
    <3>2. Joinable(control) \in Call
        BY <2>4, JoinableNamed
    <3>. QED
        BY <1>2, <2>1, <3>1, <3>2 DEF Start, TypeOK
  <2>. QED
    BY <2>3, <2>4
<1>3. ASSUME NEW c \in Call, Retry(c) PROVE TypeOK'
  <2>1. call[c].control \in BOOLEAN
    BY DEF TypeOK, Calls
  <2>2. call' = [call EXCEPT ![c] = Asking(c, "retrying", call[c].control, c)]
    BY <1>3 DEF Retry, RetriesOn
  <2>3. flight' = [flight EXCEPT ![c] = NewFlight(call[c].control, FALSE)]
    BY <1>3 DEF Retry, RetriesOn
  <2>4. /\ Asking(c, "retrying", call[c].control, c) \in Calls
        /\ NewFlight(call[c].control, FALSE) \in Flights
    BY <2>1, NewRecords
  <2>5. call' \in [Call -> Calls] /\ flight' \in [Call -> Flights]
    BY <2>2, <2>3, <2>4 DEF TypeOK
  <2>. QED
    BY <1>3, <2>5 DEF Retry, TypeOK
<1>4. ASSUME NEW c \in Call, Answer(c) PROVE TypeOK'
  <2>. DEFINE told == [phase |-> "done", control |-> call[c].control, on |-> c,
                       outcome |-> flight[call[c].on].outcome, quotaOf |-> UserOf[call[c].on],
                       gotControl |-> flight[call[c].on].control]
  <2>1. call[c].on \in Call /\ call[c].control \in BOOLEAN
    BY DEF TypeOK, Calls
  <2>2. flight[call[c].on].outcome \in Outcomes /\ flight[call[c].on].control \in BOOLEAN
        /\ UserOf[call[c].on] \in User
    BY <2>1 DEF TypeOK, Flights
  <2>3. told \in Calls
    BY <2>1, <2>2 DEF Calls
  <2>4. call' = [call EXCEPT ![c] = told]
    BY <1>4 DEF Answer
  <2>. HIDE DEF told
  <2>. QED
    BY <1>4, <2>3, <2>4 DEF Answer, TypeOK
<1>5. ASSUME NEW c \in Call, Leave(c) PROVE TypeOK'
    BY <1>5, NewRecords DEF Leave, TypeOK
<1>6. ASSUME NEW f \in Call, Cleanup(f) PROVE TypeOK'
  <2>1. [flight[f] EXCEPT !.phase = "gone"] \in Flights
    <3>1. flight[f] \in Flights
        BY DEF TypeOK
    <3>. QED
        BY <3>1 DEF Flights
  <2>2. flight' \in [Call -> Flights]
    BY <1>6, <2>1 DEF Cleanup, TypeOK
  <2>3. inflight' \in [BOOLEAN -> Call \union {NoCall}]
    BY <1>6 DEF Cleanup, TypeOK
  <2>. QED
    BY <1>6, <2>2, <2>3 DEF Cleanup, TypeOK
<1>7. CASE KeepExpires
    BY <1>7 DEF KeepExpires, TypeOK
<1>8. CASE UNCHANGED vars
    BY <1>8 DEF vars, TypeOK
<1>. QED
    BY <1>1, <1>2, <1>3, <1>4, <1>5, <1>6, <1>7, <1>8 DEF Next

LEMMA TypeInit == Init => TypeOK
<1>. SUFFICES ASSUME Init PROVE TypeOK
    OBVIOUS
<1>1. \A c \in Call : IdleCall(c) \in Calls /\ NoFlight \in Flights
    BY NewRecords
<1>2. call \in [Call -> Calls] /\ flight \in [Call -> Flights]
    BY <1>1 DEF Init
<1>. QED
    BY <1>2 DEF Init, TypeOK

\* Whatever is refused, joined, retried or freed, every call awaits a flight and every
\* key of the map names one or none (lookup.ts:122-147).
THEOREM TypeCorrect == Spec => []TypeOK
    BY TypeInit, TypeNext, PTL DEF Spec

-----------------------------------------------------------------------------
(* The invariant                                                            *)

LEMMA InvInit == Init => IInv
<1>. SUFFICES ASSUME Init PROVE IInv
    OBVIOUS
<1>1. \A c \in Call : call[c].phase = "idle" /\ call[c].outcome = "none" /\ flight[c].phase = "none"
    BY DEF Init, IdleCall, NoFlight
<1>2. \A control \in BOOLEAN : inflight[control] = NoCall
    BY DEF Init
<1>. QED
    BY <1>1, <1>2, TypeInit DEF IInv, SlotFree, JoinerFree, RetriesOwn, AwaitsStarted, Awaiting,
        Started, MapNamesStarted, RegisteredNamed, Registered, OwnRefusal, ControlServed, KeyFreed

\* A flight's own steps change neither who awaits it nor what the map says of it.
LEMMA InvGoesOn ==
    ASSUME IInv, TypeOK', NEW f \in Call, GoesOn(f)
    PROVE  IInv'
<1>1. PICK n \in Flights :
        /\ flight' = [flight EXCEPT ![f] = n]
        /\ n.phase \notin {"none", "gone"} /\ n.control = flight[f].control
        /\ n.phase \in {"start", "rankings", "enrich"} => n.refresh = flight[f].refresh
    BY DEF GoesOn
<1>2. UNCHANGED <<call, inflight>> /\ Running(f) /\ TypeOK
    BY DEF GoesOn, IInv
<1>3. flight'[f] = n /\ \A g \in Call \ {f} : flight'[g] = flight[g]
    BY <1>1, <1>2 DEF TypeOK
<1>4. \A g \in Call : /\ Started(g)' <=> Started(g)
                      /\ flight'[g].control = flight[g].control
                      /\ flight[g].phase # "gone" => flight'[g].phase # "gone"
                      /\ Registered(g)' => Registered(g)
    BY <1>1, <1>2, <1>3 DEF Started, Running, Registered
<1>5. \A c \in Call : call[c].on \in Call
    BY <1>2 DEF TypeOK, Calls
<1>6. SlotFree' /\ JoinerFree' /\ RetriesOwn' /\ OwnRefusal' /\ ControlServed'
    BY <1>2, <1>4 DEF IInv, SlotFree, JoinerFree, RetriesOwn, OwnRefusal, ControlServed
<1>7. AwaitsStarted'
    BY <1>2, <1>4, <1>5 DEF IInv, AwaitsStarted, Awaiting
<1>8. MapNamesStarted' /\ KeyFreed'
    BY <1>2, <1>4 DEF IInv, MapNamesStarted, KeyFreed, TypeOK
<1>9. RegisteredNamed'
    BY <1>2, <1>4 DEF IInv, RegisteredNamed
<1>. QED
    BY <1>6, <1>7, <1>8, <1>9 DEF IInv

LEMMA InvStart ==
    ASSUME IInv, TypeOK', NEW c \in Call, NEW control \in BOOLEAN, NEW refresh \in BOOLEAN,
           Start(c, control, refresh)
    PROVE  IInv'
<1>. DEFINE joined == Joinable(control)
<1>1. TypeOK /\ call[c].phase = "idle" /\ ~Started(c) /\ NoCall \notin Call
    BY FlightConstants DEF Start, IInv, SlotFree, FlightConstants
<1>2. \A d \in Call : call[d].on \in Call /\ (Awaiting(d) => call[d].on # c)
    BY <1>1 DEF IInv, AwaitsStarted, TypeOK, Calls
<1>3. \A key \in BOOLEAN : inflight[key] # c /\ inflight[key] \in Call \union {NoCall}
    BY <1>1 DEF IInv, MapNamesStarted, TypeOK
<1>4. CASE ~refresh /\ joined # NoCall
  <2>1. /\ call' = [call EXCEPT ![c] = Asking(c, "waiting", control, joined)]
        /\ UNCHANGED <<flight, inflight>>
    BY <1>4 DEF Start
  <2>2. PICK key \in BOOLEAN : inflight[key] = joined /\ (control => key)
    BY <1>1, <1>4, JoinableNamed
  <2>3. joined \in Call /\ joined # c /\ Started(joined) /\ (control => flight[joined].control)
    BY <1>1, <1>3, <1>4, <2>2 DEF IInv, MapNamesStarted
  <2>. HIDE DEF joined
  <2>4. /\ call'[c] = Asking(c, "waiting", control, joined)
        /\ \A d \in Call \ {c} : call'[d] = call[d]
    BY <1>1, <2>1 DEF TypeOK
  <2>5. /\ call'[c].phase = "waiting" /\ call'[c].on = joined /\ call'[c].control = control
        /\ call'[c].outcome = "none"
    BY <2>4 DEF Asking
  <2>6. SlotFree' /\ JoinerFree' /\ RetriesOwn' /\ OwnRefusal' /\ ControlServed'
    BY <1>1, <2>1, <2>4, <2>5 DEF IInv, SlotFree, JoinerFree, RetriesOwn, OwnRefusal, ControlServed,
        Started
  <2>7. AwaitsStarted'
    BY <2>1, <2>3, <2>4, <2>5 DEF IInv, AwaitsStarted, Awaiting, Started
  <2>8. MapNamesStarted' /\ KeyFreed'
    BY <2>1 DEF IInv, MapNamesStarted, KeyFreed, Started
  <2>9. RegisteredNamed'
    BY <1>1, <2>1, <2>4 DEF IInv, RegisteredNamed, Registered, Running, Started
  <2>. QED
    BY <2>6, <2>7, <2>8, <2>9 DEF IInv
<1>5. CASE refresh \/ joined = NoCall
  <2>1. /\ call' = [call EXCEPT ![c] = Asking(c, "waiting", control, c)]
        /\ flight' = [flight EXCEPT ![c] = NewFlight(control, refresh)]
        /\ inflight' = [inflight EXCEPT ![control] = IF @ = NoCall THEN c ELSE @]
    BY <1>5 DEF Start
  <2>2. ~refresh => inflight[control] = NoCall
    BY <1>1, <1>5, JoinableNamed
  <2>. HIDE DEF joined
  <2>3. /\ call'[c] = Asking(c, "waiting", control, c)
        /\ flight'[c] = NewFlight(control, refresh)
        /\ \A d \in Call \ {c} : call'[d] = call[d] /\ flight'[d] = flight[d]
    BY <1>1, <2>1 DEF TypeOK
  <2>4. /\ call'[c].phase = "waiting" /\ call'[c].on = c /\ call'[c].control = control
        /\ call'[c].outcome = "none"
        /\ flight'[c].phase = "start" /\ flight'[c].control = control /\ flight'[c].refresh = refresh
    BY <2>3 DEF Asking, NewFlight
  <2>5. /\ inflight'[control] = IF inflight[control] = NoCall THEN c ELSE inflight[control]
        /\ \A key \in BOOLEAN : key # control => inflight'[key] = inflight[key]
    BY <1>1, <2>1 DEF TypeOK
  <2>6. SlotFree' /\ JoinerFree' /\ RetriesOwn' /\ OwnRefusal' /\ ControlServed'
    BY <2>3, <2>4 DEF IInv, SlotFree, JoinerFree, RetriesOwn, OwnRefusal, ControlServed, Started
  <2>7. AwaitsStarted'
    BY <1>2, <2>3, <2>4 DEF IInv, AwaitsStarted, Awaiting, Started
  <2>8. MapNamesStarted' /\ KeyFreed'
    BY <1>3, <2>3, <2>4, <2>5 DEF IInv, MapNamesStarted, KeyFreed, Started
  <2>9. RegisteredNamed'
    <3>1. ASSUME NEW d \in Call, Registered(d)' PROVE inflight'[flight'[d].control] = d
      <4>1. CASE d = c
        BY <2>2, <2>4, <2>5, <3>1, <4>1 DEF Registered
      <4>2. CASE d # c
        <5>1. Registered(d)
            BY <2>3, <3>1, <4>2 DEF Registered, Running
        <5>2. inflight[flight[d].control] = d /\ flight[d].control \in BOOLEAN
            BY <1>1, <5>1 DEF IInv, RegisteredNamed, TypeOK, Flights
        <5>. QED
            BY <1>1, <2>3, <2>5, <4>2, <5>2
      <4>. QED
        BY <4>1, <4>2
    <3>. QED
        BY <3>1 DEF RegisteredNamed
  <2>. QED
    BY <2>6, <2>7, <2>8, <2>9 DEF IInv
<1>. QED
    BY <1>4, <1>5

LEMMA InvRetry ==
    ASSUME IInv, TypeOK', NEW c \in Call, Retry(c)
    PROVE  IInv'
<1>1. TypeOK /\ NoCall \notin Call /\ call[c].phase = "waiting" /\ call[c].on # c
    BY FlightConstants DEF Retry, Retries, IInv, FlightConstants
<1>2. ~Started(c)
    BY <1>1 DEF IInv, JoinerFree
<1>3. \A d \in Call : call[d].on \in Call /\ (Awaiting(d) => call[d].on # c)
    BY <1>1, <1>2 DEF IInv, AwaitsStarted, TypeOK, Calls
<1>4. \A key \in BOOLEAN : inflight[key] # c /\ inflight[key] \in Call \union {NoCall}
    BY <1>1, <1>2 DEF IInv, MapNamesStarted, TypeOK
<1>5. /\ call' = [call EXCEPT ![c] = Asking(c, "retrying", call[c].control, c)]
      /\ flight' = [flight EXCEPT ![c] = NewFlight(call[c].control, FALSE)]
      /\ UNCHANGED inflight
    BY DEF Retry, RetriesOn
<1>6. /\ call'[c] = Asking(c, "retrying", call[c].control, c)
      /\ flight'[c] = NewFlight(call[c].control, FALSE)
      /\ \A d \in Call \ {c} : call'[d] = call[d] /\ flight'[d] = flight[d]
    BY <1>1, <1>5 DEF TypeOK
<1>7. /\ call'[c].phase = "retrying" /\ call'[c].on = c /\ call'[c].control = call[c].control
      /\ call'[c].outcome = "none"
      /\ flight'[c].phase = "start" /\ flight'[c].control = call[c].control
    BY <1>6 DEF Asking, NewFlight
<1>8. \A d \in Call \ {c} : call'[d] = call[d] /\ flight'[d] = flight[d]
    BY <1>6
<1>9. SlotFree' /\ JoinerFree' /\ RetriesOwn' /\ OwnRefusal' /\ ControlServed'
    BY <1>7, <1>8 DEF IInv, SlotFree, JoinerFree, RetriesOwn, OwnRefusal, ControlServed, Started
<1>10. AwaitsStarted'
  <2>1. ASSUME NEW d \in Call, Awaiting(d)'
        PROVE  /\ flight'[call'[d].on].phase # "none"
               /\ call'[d].control => flight'[call'[d].on].control
    <3>1. CASE d = c
        BY <1>7, <3>1
    <3>2. CASE d # c
      <4>1. Awaiting(d) /\ call'[d] = call[d] /\ call[d].on \in Call \ {c}
        BY <1>3, <1>8, <2>1, <3>2 DEF Awaiting
      <4>2. Started(call[d].on) /\ (call[d].control => flight[call[d].on].control)
        BY <4>1 DEF IInv, AwaitsStarted
      <4>3. flight'[call[d].on] = flight[call[d].on]
        BY <1>8, <4>1
      <4>. QED
        BY <4>1, <4>2, <4>3 DEF Started
    <3>. QED
        BY <3>1, <3>2
  <2>. QED
    BY <2>1 DEF AwaitsStarted, Awaiting, Started
<1>11. MapNamesStarted' /\ KeyFreed'
  <2>1. ASSUME NEW key \in BOOLEAN, inflight[key] # NoCall
        PROVE  flight'[inflight[key]] = flight[inflight[key]]
    BY <1>4, <1>8, <2>1
  <2>. QED
    BY <1>5, <2>1 DEF IInv, MapNamesStarted, KeyFreed, Started
<1>12. RegisteredNamed'
  <2>1. ~Registered(c)'
    BY <1>7 DEF Registered
  <2>2. ASSUME NEW d \in Call \ {c} PROVE Registered(d)' => Registered(d) /\ flight'[d] = flight[d]
    BY <1>8, <2>2, Zenon DEF Registered, Running
  <2>. QED
    BY <1>5, <2>1, <2>2 DEF IInv, RegisteredNamed
<1>. QED
    BY <1>9, <1>10, <1>11, <1>12 DEF IInv

LEMMA InvAnswer ==
    ASSUME IInv, TypeOK', NEW c \in Call, Answer(c)
    PROVE  IInv'
<1>. DEFINE f == call[c].on
<1>1. TypeOK /\ Awaiting(c) /\ f \in Call /\ ~Retries(c)
    BY DEF Answer, Awaiting, IInv, TypeOK, Calls
<1>2. /\ call'[c] = [phase |-> "done", control |-> call[c].control, on |-> c,
                     outcome |-> flight[f].outcome, quotaOf |-> UserOf[f],
                     gotControl |-> flight[f].control]
      /\ \A d \in Call \ {c} : call'[d] = call[d]
      /\ UNCHANGED <<flight, inflight>>
    BY <1>1 DEF Answer, TypeOK
<1>3. /\ call'[c].phase = "done" /\ call'[c].control = call[c].control
      /\ call'[c].outcome = flight[f].outcome /\ call'[c].quotaOf = UserOf[f]
      /\ call'[c].gotControl = flight[f].control
    BY <1>2
<1>4. flight[f].outcome = "refused" => f = c
    BY <1>1 DEF Retries, Awaiting, IInv, RetriesOwn
<1>5. call[c].control => flight[f].control
    BY <1>1 DEF IInv, AwaitsStarted
<1>. HIDE DEF f
<1>6. OwnRefusal' /\ ControlServed'
    BY <1>2, <1>3, <1>4, <1>5 DEF IInv, OwnRefusal, ControlServed
<1>7. SlotFree' /\ JoinerFree' /\ RetriesOwn'
    BY <1>2, <1>3 DEF IInv, SlotFree, JoinerFree, RetriesOwn, Started
<1>8. AwaitsStarted' /\ MapNamesStarted' /\ KeyFreed'
    BY <1>2, <1>3 DEF IInv, AwaitsStarted, Awaiting, MapNamesStarted, KeyFreed, Started
<1>9. RegisteredNamed'
    BY <1>2, <1>3 DEF IInv, RegisteredNamed, Registered, Running
<1>. QED
    BY <1>6, <1>7, <1>8, <1>9 DEF IInv

LEMMA InvLeave ==
    ASSUME IInv, TypeOK', NEW c \in Call, Leave(c)
    PROVE  IInv'
<1>1. /\ TypeOK /\ call[c].phase = "done"
      /\ \A control \in BOOLEAN : inflight[control] # c
      /\ \A d \in Call \ {c} : Awaiting(d) => call[d].on # c
    BY DEF Leave, Awaiting, IInv
<1>2. /\ call'[c] = IdleCall(c) /\ flight'[c] = NoFlight
      /\ \A d \in Call \ {c} : call'[d] = call[d] /\ flight'[d] = flight[d]
      /\ UNCHANGED inflight
    BY <1>1 DEF Leave, TypeOK
<1>3. call'[c].phase = "idle" /\ call'[c].outcome = "none" /\ flight'[c].phase = "none"
    BY <1>2 DEF IdleCall, NoFlight
<1>4. \A d \in Call : call[d].on \in Call
    BY <1>1 DEF TypeOK, Calls
<1>5. \A key \in BOOLEAN : inflight[key] \in Call \union {NoCall}
    BY <1>1 DEF TypeOK
<1>6. SlotFree' /\ JoinerFree' /\ RetriesOwn' /\ OwnRefusal' /\ ControlServed'
    BY <1>2, <1>3 DEF IInv, SlotFree, JoinerFree, RetriesOwn, OwnRefusal, ControlServed, Started
<1>7. AwaitsStarted'
    BY <1>1, <1>2, <1>3, <1>4 DEF IInv, AwaitsStarted, Awaiting, Started
<1>8. MapNamesStarted' /\ KeyFreed'
    BY <1>1, <1>2, <1>5 DEF IInv, MapNamesStarted, KeyFreed, Started
<1>9. RegisteredNamed'
    BY <1>2, <1>3 DEF IInv, RegisteredNamed, Registered, Running
<1>. QED
    BY <1>6, <1>7, <1>8, <1>9 DEF IInv

LEMMA InvCleanup ==
    ASSUME IInv, TypeOK', NEW f \in Call, Cleanup(f)
    PROVE  IInv'
<1>. DEFINE key == flight[f].control
<1>1. TypeOK /\ flight[f].phase = "settled" /\ key \in BOOLEAN /\ NoCall \notin Call
    BY FlightConstants DEF Cleanup, IInv, TypeOK, Flights, FlightConstants
<1>2. /\ flight'[f] = [flight[f] EXCEPT !.phase = "gone"]
      /\ \A g \in Call \ {f} : flight'[g] = flight[g]
      /\ UNCHANGED call
    BY <1>1 DEF Cleanup, TypeOK
<1>3. flight'[f].phase = "gone" /\ flight'[f].control = key
  <2>1. flight[f] \in Flights
    BY <1>1 DEF TypeOK
  <2>. QED
    BY <1>2, <2>1 DEF Flights
<1>4. /\ inflight'[key] = IF inflight[key] = f THEN NoCall ELSE inflight[key]
      /\ \A other \in BOOLEAN : other # key => inflight'[other] = inflight[other]
    BY <1>1 DEF Cleanup, Freed, TypeOK
<1>5. \A other \in BOOLEAN : /\ inflight[other] \in Call \union {NoCall}
                             /\ inflight[other] = f => other = key
    BY <1>1 DEF IInv, MapNamesStarted, TypeOK
<1>6. \A c \in Call : call[c].on \in Call
    BY <1>1 DEF TypeOK, Calls
<1>. HIDE DEF key
<1>7. SlotFree' /\ JoinerFree' /\ RetriesOwn' /\ OwnRefusal' /\ ControlServed'
    BY <1>1, <1>2, <1>3 DEF IInv, SlotFree, JoinerFree, RetriesOwn, OwnRefusal, ControlServed, Started
<1>8. AwaitsStarted'
    BY <1>1, <1>2, <1>3, <1>6 DEF IInv, AwaitsStarted, Awaiting, Started, key
<1>9. MapNamesStarted' /\ KeyFreed'
  <2>1. ASSUME NEW other \in BOOLEAN, inflight'[other] # NoCall
        PROVE  inflight'[other] = inflight[other] /\ inflight[other] \in Call \ {f}
    BY <1>1, <1>4, <1>5, <2>1
  <2>. QED
    BY <1>2, <2>1 DEF IInv, MapNamesStarted, KeyFreed, Started
<1>10. RegisteredNamed'
  <2>1. ASSUME NEW c \in Call, Registered(c)' PROVE inflight'[flight'[c].control] = c
    <3>1. c # f /\ Registered(c)
        BY <1>2, <1>3, <2>1 DEF Registered, Running
    <3>2. inflight[flight[c].control] = c /\ flight[c].control \in BOOLEAN
        BY <1>1, <3>1 DEF IInv, RegisteredNamed, TypeOK, Flights
    <3>. QED
        BY <1>2, <1>4, <3>1, <3>2
  <2>. QED
    BY <2>1 DEF RegisteredNamed
<1>. QED
    BY <1>7, <1>8, <1>9, <1>10 DEF IInv

LEMMA InvNext == IInv /\ TypeOK' /\ [Next]_vars => IInv'
<1>. SUFFICES ASSUME IInv, TypeOK', [Next]_vars PROVE IInv'
    OBVIOUS
<1>1. ASSUME NEW f \in Call, Begin(f) \/ Rankings(f) \/ Enrich(f) PROVE IInv'
  <2>1. GoesOn(f)
    BY <1>1, FlightGoesOn DEF IInv
  <2>. QED
    BY <2>1, InvGoesOn
<1>2. CASE UNCHANGED <<call, flight, inflight>>
    BY <1>2 DEF IInv, SlotFree, JoinerFree, RetriesOwn, AwaitsStarted, Awaiting, Started,
        MapNamesStarted, RegisteredNamed, Registered, Running, OwnRefusal, ControlServed, KeyFreed
<1>3. CASE KeepExpires \/ UNCHANGED vars
    BY <1>2, <1>3 DEF KeepExpires, vars
<1>4. ASSUME NEW c \in Call, Retry(c) \/ Answer(c) \/ Leave(c) \/ Cleanup(c) PROVE IInv'
    BY <1>4, InvRetry, InvAnswer, InvLeave, InvCleanup
<1>5. ASSUME NEW c \in Call, NEW control \in BOOLEAN, NEW refresh \in BOOLEAN,
             Start(c, control, refresh)
      PROVE  IInv'
    BY <1>5, InvStart
<1>. QED
    BY <1>1, <1>3, <1>4, <1>5 DEF Next

LEMMA Invariant == Spec => []IInv
    BY InvInit, InvNext, TypeCorrect, PTL DEF Spec

\* Of the plain lookups of one key, whoever makes them, one at most fetches at a time,
\* whatever Refreshes start and settle around it (lookup.ts:132-138).
THEOREM FetchedOnce == Spec => []OneFetch
<1>1. IInv => OneFetch
    BY DEF IInv, RegisteredNamed, OneFetch
<1>. QED
    BY <1>1, Invariant, PTL

\* A refused member reads his own quota, whoever's flights he joined (lookup.ts:141-147).
THEOREM RefusedForOwnQuota == Spec => []OwnRefusal
    BY Invariant, PTL DEF IInv

\* A lookup of an own character is answered by a flight that was asked for crowd control, also when
\* it joins (server/lookup.ts:128-132); whether that flight got it is not said.
THEOREM ServedWithControl == Spec => []ControlServed
    BY Invariant, PTL DEF IInv

\* The map never names a flight whose finally has run (lookup.ts:138).
THEOREM FreedWhenGone == Spec => []KeyFreed
    BY Invariant, PTL DEF IInv

=============================================================================
