--------------------------- MODULE EntryGate_proofs ---------------------------
(***************************************************************************)
(* EntryGate for any window, time to live, cooldown and budget of the job:   *)
(* how old an entry can be, how soon the kill switch ends all entries, how   *)
(* far two entries are apart, and that what is refused stays refused.       *)
(***************************************************************************)
EXTENDS EntryGate, TLAPS

Memory == [ts : Nat, raw : Nat, ok : BOOLEAN, since : Nat]

Types ==
    /\ now \in Nat /\ intent \in Nat /\ kill \in Nat
    /\ pc \in Labels /\ mem \in Memory

\* The checks that come after `check`, and all that follows the gate.
BehindKill == {"breaker", "cooldown", "position", "time", "tradable"}

\* A tick is never older than its budget.
Budgeted == pc # "down" => mem.since <= now /\ now - mem.since <= Budget

\* Whoever is past the kill switch found it off since the tick began.
KillRead == pc \in BehindKill \/ mem.ok = TRUE => kill = 0 \/ kill >= mem.since

\* Whoever is past the clock was in the window, with a fresh signal.
TimeRead == pc = "tradable" \/ mem.ok = TRUE =>
    mem.since - mem.ts <= Ttl /\ now >= WindowStart /\ mem.since <= NoNewEntry

\* The gate passes at its end only, and only then something is bought.
OkAtTheEnd ==
    /\ mem.ok = TRUE => pc \in {"take", "drop", "stamp", "enter", "save"}
    /\ pc = "enter" => mem.ok = TRUE

GateInv == Types /\ Budgeted /\ KillRead /\ TimeRead /\ OkAtTheEnd

LEMMA InitGate == Init => GateInv
<1> SUFFICES ASSUME Init PROVE GateInv
  OBVIOUS
<1>1. NoMemory \in Memory /\ NoMemory.ok = FALSE
  BY DEF NoMemory, Memory
<1>2. QED BY <1>1 DEF Init, GateInv, Types, Labels, Checks, Budgeted, KillRead, TimeRead,
             OkAtTheEnd, BehindKill

\* A tick that ends leaves nothing to show.
LEMMA DownIsSafe ==
  ASSUME GateInv, pc' = "down", mem' = NoMemory, now' \in Nat, intent' \in Nat, kill' \in Nat
  PROVE  GateInv'
<1>1. NoMemory \in Memory /\ NoMemory.ok = FALSE
  BY DEF NoMemory, Memory
<1>2. QED BY <1>1 DEF GateInv, Types, Labels, Checks, Budgeted, KillRead, TimeRead,
             OkAtTheEnd, BehindKill

LEMMA GateStep == GateInv /\ [Next]_vars => GateInv'
<1> SUFFICES ASSUME GateInv, [Next]_vars PROVE GateInv'
  OBVIOUS
<1> USE DEF GateInv, Types, Budgeted, KillRead, TimeRead, OkAtTheEnd, keys
<1>a. Budget \in Nat /\ Ttl \in Nat /\ WindowStart \in Nat /\ NoNewEntry \in Nat
  BY GateAssumption
<1>1. CASE LoadIntent
  <2>1. mem' \in Memory /\ mem'.ok = FALSE /\ mem'.since = now
    BY <1>1 DEF LoadIntent, NoMemory, Memory
  <2>2. pc' = "kill" /\ UNCHANGED <<now, intent, kill>>
    BY <1>1 DEF LoadIntent, Step
  <2>3. QED BY <1>a, <2>1, <2>2 DEF Labels, Checks, BehindKill
<1>2. CASE CheckPasses
  <2>1. /\ mem' \in Memory /\ mem'.since = mem.since /\ mem'.ts = mem.ts
        /\ mem'.ok = TRUE => pc = "tradable"
        /\ UNCHANGED <<now, intent, kill>>
    BY <1>2 DEF CheckPasses, Memory
  <2>2. pc' = After(pc) /\ pc \in Checks /\ Holds(pc)
    BY <1>2 DEF CheckPasses
  <2>3. mem.ok = FALSE
    BY <2>2 DEF Memory, Checks
  <2>4. CASE pc = "kill"
    BY <1>a, <2>1, <2>2, <2>4 DEF After, Holds, Memory, Labels, Checks, BehindKill
  <2>5. CASE pc \in {"breaker", "cooldown", "position"}
    BY <1>a, <2>1, <2>2, <2>5 DEF After, Memory, Labels, Checks, BehindKill
  <2>6. CASE pc = "time"
    <3>1. now \in WindowStart..NoNewEntry /\ now - mem.ts <= Ttl
      BY <2>2, <2>6 DEF Holds
    <3>2. pc' = "tradable"
      BY <2>2, <2>6 DEF After
    <3>3. QED BY <1>a, <2>1, <2>6, <3>1, <3>2 DEF Memory, Labels, Checks, BehindKill
  <2>7. CASE pc = "tradable"
    <3>1. pc' = "take"
      BY <2>2, <2>7 DEF After
    <3>2. QED BY <1>a, <2>1, <2>7, <3>1 DEF Memory, Labels, Checks, BehindKill
  <2>8. QED BY <2>2, <2>4, <2>5, <2>6, <2>7 DEF Checks
<1>3. CASE CheckFails
  BY <1>3 DEF CheckFails, Labels, Checks, BehindKill, Memory
<1>4. CASE Take
  <2>1. CASE intent = 0
    BY <1>4, <2>1, DownIsSafe DEF Take
  <2>2. CASE intent # 0
    <3>1. mem' = [mem EXCEPT !.raw = intent] /\ pc' = "drop" /\ UNCHANGED <<now, intent, kill>>
      BY <1>4, <2>2 DEF Take
    <3>2. pc = "take"
      BY <1>4 DEF Take
    <3>3. QED BY <1>a, <3>1, <3>2 DEF Labels, Checks, BehindKill, Memory
  <2>3. QED BY <2>1, <2>2
<1>5. CASE Drop
  BY <1>5 DEF Drop, Step, Labels, Checks, BehindKill, Memory
<1>6. CASE Stamp
  <2>1. CASE mem.ok = TRUE
    BY <1>6, <2>1 DEF Stamp, Labels, Checks, BehindKill, Memory
  <2>2. CASE mem.ok = FALSE
    BY <1>6, <2>2, DownIsSafe DEF Stamp
  <2>3. QED BY <2>1, <2>2 DEF Memory
<1>7. CASE AbortEntry
  BY <1>7, DownIsSafe DEF AbortEntry, Step
<1>8. CASE Enter
  BY <1>8 DEF Enter, Step, Labels, Checks, BehindKill, Memory
<1>9. CASE SavePosition
  BY <1>9, DownIsSafe DEF SavePosition, Step
<1>10. CASE TickDies
  BY <1>10, DownIsSafe DEF TickDies
<1>11. CASE PositionCloses \/ CooldownElapses
  BY <1>11 DEF PositionCloses, CooldownElapses
<1>12. CASE WriteIntent \/ ExpireIntent
  BY <1>12 DEF WriteIntent, ExpireIntent
<1>13. CASE SetKillSwitch
  <2>1. kill' \in {0, now} /\ UNCHANGED <<now, intent, pc, mem>>
    BY <1>13 DEF SetKillSwitch
  <2>2. pc \in BehindKill \/ mem.ok = TRUE => pc # "down"
    BY DEF BehindKill
  <2>3. QED BY <1>a, <2>1, <2>2 DEF Memory
<1>14. CASE MinutePasses
  <2>1. now' = now + 1 /\ (pc # "down" => now' - mem.since <= Budget)
        /\ UNCHANGED <<intent, kill, pc, mem>>
    BY <1>14 DEF MinutePasses
  <2>2. QED BY <1>a, <2>1 DEF Memory
<1>15. CASE UNCHANGED vars
  BY <1>15 DEF vars
<1>16. QED BY <1>1, <1>2, <1>3, <1>4, <1>5, <1>6, <1>7, <1>8, <1>9, <1>10, <1>11, <1>12,
              <1>13, <1>14, <1>15 DEF Next

LEMMA GateInvariant == Spec => []GateInv
  BY InitGate, GateStep, PTL DEF Spec

\* Only Enter adds an entry, and by then the budget, the clock and the switch
\* have been looked at.
LEMMA EnterIsChecked ==
  ASSUME GateInv, Enter
  PROVE  /\ now - mem.ts <= Ttl + Budget /\ now >= WindowStart /\ now <= NoNewEntry + Budget
         /\ kill = 0 \/ now - kill <= Budget
<1>1. pc = "enter" /\ mem.ok = TRUE
  BY DEF Enter, Step, GateInv, OkAtTheEnd
<1>2. /\ now \in Nat /\ kill \in Nat /\ mem.since \in Nat /\ mem.ts \in Nat
      /\ Budget \in Nat /\ Ttl \in Nat /\ WindowStart \in Nat /\ NoNewEntry \in Nat
  BY GateAssumption DEF GateInv, Types, Memory
<1>3. now - mem.since <= Budget
  BY <1>1 DEF GateInv, Budgeted
<1>4. /\ mem.since - mem.ts <= Ttl /\ now >= WindowStart /\ mem.since <= NoNewEntry
      /\ kill = 0 \/ kill >= mem.since
  BY <1>1 DEF GateInv, KillRead, TimeRead
<1>5. QED BY <1>2, <1>3, <1>4

LEMMA OnlyEnterEnters == [Next]_vars /\ ~Enter => entered' = entered
  BY DEF Next, vars, LoadIntent, CheckPasses, CheckFails, Take, Drop, Stamp, AbortEntry,
     SavePosition, TickDies, PositionCloses, CooldownElapses, WriteIntent, ExpireIntent,
     SetKillSwitch, MinutePasses

\* No entry is older than the time to live of its signal and one job, or out of
\* the window by more than one job.
THEOREM EntriesInTime == Spec => []EntriesAreTimely
<1>1. Init => EntriesAreTimely
  BY DEF Init, EntriesAreTimely
<1>2. GateInv /\ EntriesAreTimely /\ [Next]_vars => EntriesAreTimely'
  <2> SUFFICES ASSUME GateInv, EntriesAreTimely, [Next]_vars PROVE EntriesAreTimely'
    OBVIOUS
  <2>1. CASE Enter
    <3>1. entered' = entered \cup {[ts |-> mem.ts, at |-> now]}
      BY <2>1 DEF Enter
    <3>2. QED BY <2>1, <3>1, EnterIsChecked DEF EntriesAreTimely
  <2>2. CASE ~Enter
    BY <2>2, OnlyEnterEnters DEF EntriesAreTimely
  <2>3. QED BY <2>1, <2>2
<1>3. QED BY <1>1, <1>2, GateInvariant, PTL DEF Spec

\* A kill switch that has been on for longer than one job stops every entry.
THEOREM KillSwitchWorks == Spec => KillSwitchStops
<1>1. GateInv /\ [Next]_vars => [entered' # entered => kill = 0 \/ now - kill <= Budget]_vars
  BY EnterIsChecked, OnlyEnterEnters
<1>2. QED BY <1>1, GateInvariant, PTL DEF Spec, KillSwitchStops

-----------------------------------------------------------------------------
(* Types. *)

LEMMA MinuteFacts ==
    /\ Minutes \subseteq Nat /\ 0 \in Minutes /\ 1 \in Minutes
    /\ Budget \in Nat /\ MaxFaults \in Nat /\ Cooldown \in Nat
    /\ NoMemory \in [ts : Minutes, raw : Minutes, ok : BOOLEAN, since : Minutes]
<1>1. LastMinute \in Nat \ {0}
  BY GateAssumption
<1>2. Minutes \subseteq Nat /\ 0 \in Minutes /\ 1 \in Minutes
  BY <1>1 DEF Minutes
<1>3. Budget \in Nat /\ MaxFaults \in Nat /\ Cooldown \in Nat
  BY GateAssumption
<1> QED
  BY <1>2, <1>3 DEF NoMemory

LEMMA TypeInit == Init => TypeOK
<1> SUFFICES ASSUME Init PROVE TypeOK
  OBVIOUS
<1>1. /\ now = 1 /\ intent = 0 /\ last = 0 /\ kill = 0 /\ blocked = FALSE
      /\ pos = [phase |-> "IDLE", since |-> 0] /\ pc = "down" /\ mem = NoMemory
      /\ entered = {} /\ refused = 0 /\ signal = 0 /\ faults = 0
  BY DEF Init
<1>2. faults \in 0..MaxFaults
  BY <1>1, MinuteFacts
<1>3. pos \in [phase : {"IDLE", "HELD", "COOLDOWN"}, since : Minutes]
  BY <1>1, MinuteFacts
<1> QED
  BY <1>1, <1>2, <1>3, MinuteFacts DEF TypeOK, Labels

LEMMA TypeStep == TypeOK /\ [Next]_vars => TypeOK'
<1> SUFFICES ASSUME TypeOK, [Next]_vars PROVE TypeOK'
  OBVIOUS
<1> USE DEF TypeOK, keys, Step
<1>a. Budget \in Nat /\ MaxFaults \in Nat /\ Minutes \subseteq Nat /\ 0 \in Minutes
  BY MinuteFacts
<1>0. NoMemory \in [ts : Minutes, raw : Minutes, ok : BOOLEAN, since : Minutes]
  BY MinuteFacts
<1>1. CASE LoadIntent
  <2>1. /\ mem' \in [ts : Minutes, raw : Minutes, ok : BOOLEAN, since : Minutes]
        /\ mem'.since = now
    BY <1>0, <1>1 DEF LoadIntent
  <2> QED
    BY <1>a, <1>1, <2>1 DEF LoadIntent, Labels, Checks
<1>2. CASE CheckPasses
  BY <1>2 DEF CheckPasses, Labels, Checks, After
<1>3. CASE CheckFails \/ Drop
  BY <1>a, <1>3 DEF CheckFails, Drop, Labels, Checks
<1>4. CASE Take \/ Stamp
  BY <1>0, <1>4 DEF Take, Stamp, Labels
<1>5. CASE AbortEntry \/ SavePosition
  BY <1>0, <1>a, <1>5 DEF AbortEntry, SavePosition, Labels
<1>6. CASE Enter
  BY <1>6 DEF Enter, Labels
<1>7. CASE TickDies
  BY <1>0, <1>7, <1>a DEF TickDies, Labels
<1>8. CASE PositionCloses \/ CooldownElapses
  <2>1. blocked' \in BOOLEAN
    <3>1. blocked \in BOOLEAN /\ blocked' \in {blocked, TRUE}
      BY <1>8 DEF PositionCloses, CooldownElapses
    <3> HIDE DEF TypeOK
    <3> QED
      BY <3>1
  <2> QED
    <3>1. pos' \in [phase : {"IDLE", "HELD", "COOLDOWN"}, since : Minutes]
      <4>1. \/ pos' = [phase |-> "COOLDOWN", since |-> now]
            \/ pos' = [phase |-> "IDLE", since |-> 0]
        BY <1>8 DEF PositionCloses, CooldownElapses
      <4>2. now \in Minutes
        OBVIOUS
      <4> HIDE DEF TypeOK
      <4> QED
        BY <1>a, <4>1, <4>2
    <3> QED
      BY <1>8, <2>1, <3>1 DEF PositionCloses, CooldownElapses
<1>9. CASE WriteIntent \/ ExpireIntent \/ SetKillSwitch
  BY <1>a, <1>9 DEF WriteIntent, ExpireIntent, SetKillSwitch
<1>10. CASE MinutePasses
  <2>1. now' \in Minutes
    BY <1>10, GateAssumption DEF MinutePasses, Minutes
  <2> QED
    BY <1>10, <2>1 DEF MinutePasses
<1>11. CASE UNCHANGED vars
  BY <1>11 DEF vars
<1> QED
  BY <1>1, <1>2, <1>3, <1>4, <1>5, <1>6, <1>7, <1>8, <1>9, <1>10, <1>11 DEF Next

\* Type correctness, and with it that no tick outlives its job.
THEOREM TypeCorrect == Spec => []TypeOK
BY TypeInit, TypeStep, PTL DEF Spec

-----------------------------------------------------------------------------
(* Signals in order. *)

BeforeEntry == Checks \cup {"take", "drop", "stamp", "enter"}

\* The pending intent is the last signal or none, and no key is ahead of it.
SignalsInOrder ==
    /\ intent \in {0, signal} /\ signal <= now /\ last <= signal /\ refused <= signal

\* What the tick holds: the intent it loaded, and from "drop" on the one it
\* deletes, which is no older and becomes the last signal.
HeldInOrder ==
    pc # "down" =>
        /\ 0 < mem.ts /\ mem.ts <= signal
        /\ pc \in {"drop", "stamp"} => mem.ts <= mem.raw /\ last <= mem.raw /\ mem.raw <= signal
        /\ pc \in {"enter", "save"} => mem.ts <= last
        /\ intent # 0 => mem.ts <= intent
        /\ pc \in {"stamp", "enter", "save"} => mem.ts # intent

\* An entry's signal is on record as the last one, and older than all that may
\* still be bought.
EnteredInOrder ==
    \A e \in entered :
        /\ 0 < e.ts /\ e.ts <= last
        /\ intent # 0 => e.ts < intent
        /\ pc \in BeforeEntry => e.ts < mem.ts

\* Whoever is past the cooldown check is that far from every entry.
CooldownRead ==
    (\/ pc \in {"position", "time", "tradable"}
     \/ pc \in {"take", "drop", "stamp", "enter"} /\ mem.ok = TRUE)
    => \A e \in entered : now - e.ts >= Cooldown

\* Without faults a refused intent is pending until it is deleted and never again.
RefusedGone ==
    faults = 0 =>
        /\ pc \notin {"take", "drop"} /\ intent # 0 => refused < intent
        /\ pc \in Checks => refused < mem.ts
        /\ pc \in {"take", "drop", "stamp", "enter"} /\ mem.ok = TRUE => refused < mem.ts
        /\ \A e \in entered : e.ts # refused

OrderInv == SignalsInOrder /\ HeldInOrder /\ EnteredInOrder /\ CooldownRead
            /\ CooldownRespected /\ RefusedGone

LEMMA OrderInit == Init => OrderInv
BY DEF Init, OrderInv, SignalsInOrder, HeldInOrder, EnteredInOrder, CooldownRead,
   CooldownRespected, RefusedGone, Checks, BeforeEntry, NoMemory

\* Numbers are numbers.
LEMMA GateNumbers ==
    ASSUME TypeOK
    PROVE  /\ now \in Nat /\ intent \in Nat /\ last \in Nat /\ signal \in Nat /\ refused \in Nat
           /\ mem \in Memory /\ Cooldown \in Nat
           /\ \A e \in entered : e.ts \in Nat /\ e.at \in Nat
BY MinuteFacts DEF TypeOK, Memory

\* A tick that ends, leaves the keys and the entries alone.
LEMMA OrderDown ==
    ASSUME OrderInv, pc' = "down", pc \notin {"take", "drop"} \/ faults' # 0 \/ intent = 0,
           faults' = 0 => faults = 0,
           UNCHANGED <<now, intent, last, signal, refused, entered>>
    PROVE  OrderInv'
BY DEF OrderInv, SignalsInOrder, HeldInOrder, EnteredInOrder, CooldownRead,
       CooldownRespected, RefusedGone, Checks, BeforeEntry

LEMMA OrderStep == TypeOK /\ OkAtTheEnd /\ OrderInv /\ [Next]_vars => OrderInv'
<1> SUFFICES ASSUME TypeOK, OkAtTheEnd, OrderInv, [Next]_vars PROVE OrderInv'
  OBVIOUS
<1>0. /\ now \in Nat /\ intent \in Nat /\ last \in Nat /\ signal \in Nat /\ refused \in Nat
      /\ mem \in Memory /\ Cooldown \in Nat
      /\ \A e \in entered : e.ts \in Nat /\ e.at \in Nat
  BY GateNumbers
<1> USE DEF OrderInv, SignalsInOrder, HeldInOrder, EnteredInOrder, CooldownRead,
    RefusedGone, BeforeEntry, Checks, keys, Step
<1>1. CASE LoadIntent
  <2>1. /\ pc' = "kill" /\ mem'.ts = intent /\ mem'.ok = FALSE /\ intent # 0 /\ pc = "down"
        /\ UNCHANGED <<now, intent, last, signal, refused, entered, faults>>
    BY <1>1 DEF LoadIntent, NoMemory
  <2> QED
    BY <1>0, <2>1 DEF CooldownRespected
<1>2. CASE CheckPasses
  <2>1. /\ mem'.ts = mem.ts /\ mem'.ok = (pc = "tradable")
        /\ pc \in Checks /\ pc' = After(pc) /\ Holds(pc)
        /\ UNCHANGED <<now, intent, last, signal, refused, entered, faults>>
    BY <1>0, <1>2 DEF CheckPasses, Memory
  <2>2. CooldownRead'
    <3>1. CASE pc = "cooldown"
      BY <1>0, <2>1, <3>1 DEF Holds, After
    <3>2. CASE pc # "cooldown"
      BY <2>1, <3>2 DEF After
    <3> QED
      BY <3>1, <3>2
  <2>3. pc' \in Checks \cup {"take"} /\ (mem'.ok = TRUE => pc = "tradable")
    BY <2>1 DEF After
  <2> QED
    BY <1>0, <2>1, <2>2, <2>3 DEF CooldownRespected
<1>3. CASE CheckFails
  <2>1. /\ pc \in Checks /\ pc' = "take" /\ refused' = mem.ts /\ mem' = mem
        /\ UNCHANGED <<now, intent, last, signal, entered, faults>>
    BY <1>3 DEF CheckFails
  <2>2. mem.ts <= signal /\ 0 < mem.ts /\ mem.ts \in Nat
    BY <1>0, <2>1 DEF Memory
  <2>3. mem.ok # TRUE
    BY <2>1 DEF OkAtTheEnd
  <2>4. CooldownRead' /\ CooldownRespected'
    BY <2>1, <2>3 DEF CooldownRespected
  <2>5. RefusedGone'
    <3>1. \A e \in entered : e.ts # mem.ts
      BY <1>0, <2>1, <2>2
    <3>2. pc' = "take" /\ pc' \notin Checks /\ mem'.ok # TRUE
      BY <2>1, <2>3
    <3> QED
      BY <2>1, <3>1, <3>2
  <2> QED
    BY <1>0, <2>1, <2>2, <2>4, <2>5
<1>4. CASE Take
  <2>1. CASE intent = 0
    BY <1>4, <2>1, OrderDown DEF Take
  <2>2. CASE intent # 0
    <3>1. /\ pc = "take" /\ pc' = "drop" /\ mem'.ts = mem.ts /\ mem'.ok = mem.ok
          /\ mem'.raw = intent
          /\ UNCHANGED <<now, intent, last, signal, refused, entered, faults>>
      BY <1>0, <1>4, <2>2 DEF Take, Memory
    <3> QED
      BY <1>0, <2>2, <3>1 DEF CooldownRespected
  <2> QED
    BY <2>1, <2>2
<1>5. CASE Drop
  <2>1. /\ pc = "drop" /\ pc' = "stamp" /\ intent' = 0
        /\ UNCHANGED <<now, last, signal, refused, entered, faults, mem>>
    BY <1>5 DEF Drop
  <2> QED
    BY <1>0, <2>1 DEF CooldownRespected, Memory
<1>6. CASE Stamp
  <2>1. /\ pc = "stamp" /\ last' = mem.raw /\ pc' = (IF mem.ok THEN "enter" ELSE "down")
        /\ mem' = (IF mem.ok THEN mem ELSE NoMemory)
        /\ UNCHANGED <<now, intent, signal, refused, entered, faults>>
    BY <1>6 DEF Stamp
  <2>2. CASE mem.ok = TRUE
    BY <1>0, <2>1, <2>2 DEF CooldownRespected, Memory
  <2>3. CASE mem.ok = FALSE
    BY <1>0, <2>1, <2>3 DEF CooldownRespected, Memory
  <2> QED
    BY <1>0, <2>2, <2>3 DEF Memory
<1>7. CASE AbortEntry \/ SavePosition
  BY <1>7, OrderDown DEF AbortEntry, SavePosition
<1>8. CASE Enter
  <2>1. /\ pc = "enter" /\ pc' = "save" /\ mem' = mem
        /\ entered' = entered \cup {[ts |-> mem.ts, at |-> now]}
        /\ UNCHANGED <<now, intent, last, signal, refused, faults>>
    BY <1>8 DEF Enter
  <2>2. mem.ok = TRUE /\ mem.ts \in Nat /\ 0 < mem.ts /\ mem.ts <= last /\ mem.ts # intent
        /\ (intent # 0 => mem.ts <= intent)
    BY <1>0, <2>1 DEF OkAtTheEnd, Memory
  <2>3. \A e \in entered : e.ts < mem.ts /\ now - e.ts >= Cooldown
    BY <2>1, <2>2
  <2>4. EnteredInOrder'
    BY <1>0, <2>1, <2>2
  <2>5. CooldownRespected'
    BY <1>0, <2>1, <2>2, <2>3 DEF CooldownRespected
  <2>6. RefusedGone'
    BY <1>0, <2>1, <2>2
  <2> QED
    BY <1>0, <2>1, <2>2, <2>4, <2>5, <2>6
<1>9. CASE TickDies
  <2>1. faults' = faults + 1 /\ faults \in Nat
    BY <1>9, MinuteFacts DEF TickDies, TypeOK
  <2>2. pc' = "down" /\ UNCHANGED <<now, intent, last, signal, refused, entered>>
    BY <1>9 DEF TickDies
  <2>3. faults' # 0
    BY <2>1
  <2> HIDE DEF OrderInv
  <2> QED
    BY <2>2, <2>3, OrderDown
<1>10. CASE PositionCloses \/ CooldownElapses \/ SetKillSwitch
  BY <1>10 DEF PositionCloses, CooldownElapses, SetKillSwitch, CooldownRespected
<1>11. CASE WriteIntent
  <2>1. /\ signal < now /\ intent' = now /\ signal' = now
        /\ UNCHANGED <<now, last, refused, entered, faults, pc, mem>>
    BY <1>11 DEF WriteIntent
  <2> QED
    BY <1>0, <2>1 DEF CooldownRespected, Memory
<1>12. CASE ExpireIntent
  <2>1. intent' = 0 /\ UNCHANGED <<now, last, signal, refused, entered, faults, pc, mem>>
    BY <1>12 DEF ExpireIntent
  <2> QED
    BY <1>0, <2>1 DEF CooldownRespected, Memory
<1>13. CASE MinutePasses
  <2>1. now' = now + 1 /\ UNCHANGED <<intent, last, signal, refused, entered, faults, pc, mem>>
    BY <1>13 DEF MinutePasses
  <2> QED
    BY <1>0, <2>1 DEF CooldownRespected
<1>14. CASE UNCHANGED vars
  BY <1>14 DEF vars, CooldownRespected
<1> QED
  BY <1>1, <1>2, <1>3, <1>4, <1>5, <1>6, <1>7, <1>8, <1>9, <1>10, <1>11, <1>12, <1>13,
     <1>14 DEF Next

LEMMA OrderInvariant == Spec => []OrderInv
<1>1. GateInv => OkAtTheEnd
  BY DEF GateInv
<1> QED
  BY <1>1, OrderInit, OrderStep, TypeCorrect, GateInvariant, PTL DEF Spec

\* Two entries are a cooldown apart, for any times to live and wherever ticks die.
THEOREM CooldownHolds == Spec => []CooldownRespected
<1>1. OrderInv => CooldownRespected
  BY DEF OrderInv
<1> QED
  BY <1>1, OrderInvariant, PTL

\* A refused intent is never entered, unless a tick died before deleting it.
THEOREM RefusalsHold == Spec => []RefusedStaysRefused
<1>1. OrderInv => RefusedStaysRefused
  BY DEF OrderInv, RefusedGone, RefusedStaysRefused
<1> QED
  BY <1>1, OrderInvariant, PTL
=============================================================================
