------------------------------ MODULE EntryGate ------------------------------
(***************************************************************************)
(* From a pending intent to its entry, in time: executor/gates.py, _run_idle *)
(* of executor/run.py and the intent, last-signal and kill-switch keys of   *)
(* executor/state.py, for one instrument.                                  *)
(*                                                                         *)
(* Every check reads its own key or the clock at its own moment; between    *)
(* two of them the signal process may overwrite the intent, the user may    *)
(* throw the switch, and the clock goes on.  An intent is identified by its *)
(* timestamp `ts`, 0 stands for an absent key.                             *)
(***************************************************************************)
EXTENDS Integers

CONSTANTS
    WindowStart,  \* config.EVAL_WINDOW_START
    NoNewEntry,   \* config.NO_NEW_ENTRY
    Ttl,          \* config.INTENT_TTL_MIN
    Cooldown,     \* config.COOLDOWN_CANDLES * 5 minutes after a signal
    ExitCooldown, \* config.COOLDOWN_AFTER_EXIT
    Budget,       \* timeout-minutes of the job: no tick outlives it
    LastMinute,   \* the behaviour ends here
    MaxFaults     \* bound on the ticks that die

ASSUME GateAssumption ==
    /\ \A c \in {Ttl, Cooldown, ExitCooldown, Budget, MaxFaults} : c \in Nat
    /\ WindowStart \in Nat \ {0} /\ NoNewEntry \in Nat /\ LastMinute \in Nat \ {0}

VARIABLES
    now,      \* the clock
    intent,   \* Redis executor:pending_intent:{instrument}
    last,     \* Redis executor:last_signal_ts:{instrument}
    kill,     \* Redis executor:kill_switch: since when it is on
    blocked,  \* Redis executor:entries_blocked:{date}
    pos,      \* Redis executor:position:{instrument}: phase and since when
    pc, mem,  \* the running tick
    entered,  \* entries sent so far: which intent, when
    refused,  \* the intent a gate has refused last
    signal,   \* the signal written last
    faults

vars == <<now, intent, last, kill, blocked, pos, pc, mem, entered, refused, signal,
          faults>>

Minutes == 0..LastMinute
Checks  == {"kill", "breaker", "cooldown", "position", "time", "tradable"}
Labels  == Checks \cup {"down", "take", "drop", "stamp", "enter", "save"}

\* Locals: the copy loaded by _run_idle, the value consume_intent or
\* discard_intent has read, whether the gate passed, when the tick began.
NoMemory == [ts |-> 0, raw |-> 0, ok |-> FALSE, since |-> 0]

\* A tick never outlives its job (timeout-minutes).
TypeOK ==
    /\ now \in Minutes /\ intent \in Minutes /\ last \in Minutes /\ kill \in Minutes
    /\ blocked \in BOOLEAN
    /\ pos \in [phase : {"IDLE", "HELD", "COOLDOWN"}, since : Minutes]
    /\ pc \in Labels
    /\ mem \in [ts : Minutes, raw : Minutes, ok : BOOLEAN, since : Minutes]
    /\ entered \subseteq [ts : Minutes, at : Minutes]
    /\ refused \in Minutes /\ signal \in Minutes
    /\ faults \in 0..MaxFaults
    /\ pc # "down" => now - mem.since <= Budget

Init ==
    /\ now = 1 /\ intent = 0 /\ last = 0 /\ kill = 0 /\ blocked = FALSE
    /\ pos = [phase |-> "IDLE", since |-> 0]
    /\ pc = "down" /\ mem = NoMemory
    /\ entered = {} /\ refused = 0 /\ signal = 0 /\ faults = 0

Step(from, to) == pc = from /\ pc' = to
keys == <<intent, last, kill, blocked, pos>>

-----------------------------------------------------------------------------
(* The tick. *)

\* _run_idle: the instrument is idle, the intent is loaded.
LoadIntent ==
    /\ Step("down", "kill")
    /\ pos.phase = "IDLE" /\ intent # 0
    /\ mem' = [NoMemory EXCEPT !.ts = intent, !.since = now]
    /\ UNCHANGED <<now, keys, entered, refused, signal, faults>>

\* The order of check_all.  The option's quote and its place in the token
\* cache are not modelled: "tradable" may refuse any intent.
After(check) == CASE check = "kill" -> "breaker"
                  [] check = "breaker" -> "cooldown"
                  [] check = "cooldown" -> "position"
                  [] check = "position" -> "time"
                  [] check = "time" -> "tradable"
                  [] check = "tradable" -> "take"

\* Seeded bug: the age of the intent is not looked at.
HoldsForStale(check) ==
    CASE check = "kill"     -> kill = 0
      [] check = "breaker"  -> ~blocked
      [] check = "cooldown" -> last = 0 \/ now - last >= Cooldown
      [] check = "position" -> pos.phase # "HELD"
      [] check = "time"     -> now \in WindowStart..NoNewEntry
      [] check = "tradable" -> TRUE

\* Seeded bug: the kill switch is only consulted once an intent was refused.
HoldsForKilled(check) ==
    CASE check = "kill"     -> kill = 0 \/ last = 0
      [] check = "breaker"  -> ~blocked
      [] check = "cooldown" -> last = 0 \/ now - last >= Cooldown
      [] check = "position" -> pos.phase # "HELD"
      [] check = "time"     -> now \in WindowStart..NoNewEntry /\ now - mem.ts <= Ttl
      [] check = "tradable" -> TRUE

Holds(check) ==
    CASE check = "kill"     -> kill = 0
      [] check = "breaker"  -> ~blocked
      [] check = "cooldown" -> last = 0 \/ now - last >= Cooldown
      [] check = "position" -> pos.phase # "HELD"
      [] check = "time"     -> now \in WindowStart..NoNewEntry /\ now - mem.ts <= Ttl
      [] check = "tradable" -> TRUE

CheckPasses ==
    /\ pc \in Checks /\ Holds(pc) /\ pc' = After(pc)
    /\ mem' = [mem EXCEPT !.ok = pc = "tradable"]
    /\ UNCHANGED <<now, keys, entered, refused, signal, faults>>

\* Seeded bug: a refused intent is kept for the next tick.
CheckFailsForNow ==
    /\ pc \in Checks /\ (~Holds(pc) \/ pc = "tradable")
    /\ pc' = "down" /\ mem' = NoMemory
    /\ refused' = mem.ts
    /\ UNCHANGED <<now, keys, entered, signal, faults>>

\* The first check that fails ends the gate; the intent will be discarded.
CheckFails ==
    /\ pc \in Checks /\ (~Holds(pc) \/ pc = "tradable")
    /\ pc' = "take"
    /\ refused' = mem.ts
    /\ UNCHANGED <<now, keys, mem, entered, signal, faults>>

\* consume_intent and discard_intent make the same three calls: GET, ...
Take ==
    /\ pc = "take"
    /\ pc' = IF intent = 0 THEN "down" ELSE "drop"
    /\ mem' = IF intent = 0 THEN NoMemory ELSE [mem EXCEPT !.raw = intent]
    /\ UNCHANGED <<now, keys, entered, refused, signal, faults>>

\* ... DELETE, of whatever is there by now, ...
Drop ==
    /\ Step("drop", "stamp")
    /\ intent' = 0
    /\ UNCHANGED <<now, last, kill, blocked, pos, mem, entered, refused, signal, faults>>

\* Seeded bug: the time of a consumed signal is not recorded.
StampRefusedOnly ==
    /\ pc = "stamp"
    /\ last' = IF mem.ok THEN last ELSE mem.raw
    /\ pc' = IF mem.ok THEN "enter" ELSE "down"
    /\ mem' = IF mem.ok THEN mem ELSE NoMemory
    /\ UNCHANGED <<now, intent, kill, blocked, pos, entered, refused, signal, faults>>

\* ... SET of the last-signal time, for a refused intent as well.
Stamp ==
    /\ pc = "stamp"
    /\ last' = mem.raw
    /\ pc' = IF mem.ok THEN "enter" ELSE "down"
    /\ mem' = IF mem.ok THEN mem ELSE NoMemory
    /\ UNCHANGED <<now, intent, kill, blocked, pos, entered, refused, signal, faults>>

\* No entry quote, or compute_qty returns 0: the consumed intent is lost.
AbortEntry ==
    /\ Step("enter", "down") /\ mem' = NoMemory
    /\ UNCHANGED <<now, keys, entered, refused, signal, faults>>

\* try_enter sends the copy that passed the gate.
Enter ==
    /\ Step("enter", "save")
    /\ entered' = entered \cup {[ts |-> mem.ts, at |-> now]}
    /\ UNCHANGED <<now, keys, mem, refused, signal, faults>>

SavePosition ==
    /\ Step("save", "down") /\ mem' = NoMemory
    /\ pos' = [phase |-> "HELD", since |-> 0]
    /\ UNCHANGED <<now, intent, last, kill, blocked, entered, refused, signal, faults>>

\* The tick is cancelled, or its next call raises.
TickDies ==
    /\ pc # "down" /\ faults < MaxFaults
    /\ pc' = "down" /\ mem' = NoMemory /\ faults' = faults + 1
    /\ UNCHANGED <<now, keys, entered, refused, signal>>

-----------------------------------------------------------------------------
(* Other ticks of the day and the world outside. *)

\* The position is closed; 15 minutes later it is deleted.  With its loss the
\* breaker may trip.
PositionCloses ==
    /\ pc = "down" /\ pos.phase = "HELD"
    /\ pos' = [phase |-> "COOLDOWN", since |-> now]
    /\ blocked' \in {blocked, TRUE}
    /\ UNCHANGED <<now, intent, last, kill, pc, mem, entered, refused, signal, faults>>

CooldownElapses ==
    /\ pc = "down" /\ pos.phase = "COOLDOWN" /\ now - pos.since >= ExitCooldown
    /\ pos' = [phase |-> "IDLE", since |-> 0]
    /\ UNCHANGED <<now, intent, last, kill, blocked, pc, mem, entered, refused, signal, faults>>

\* A new signal replaces the pending intent, used or not.
WriteIntent ==
    /\ signal < now
    /\ intent' = now /\ signal' = now
    /\ UNCHANGED <<now, last, kill, blocked, pos, pc, mem, entered, refused, faults>>

\* The key of the intent expires Ttl after it was written.
ExpireIntent ==
    /\ intent # 0 /\ now - intent >= Ttl
    /\ intent' = 0
    /\ UNCHANGED <<now, last, kill, blocked, pos, pc, mem, entered, refused, signal, faults>>

\* The user sets or clears the switch.
SetKillSwitch ==
    /\ kill' = IF kill = 0 THEN now ELSE 0
    /\ UNCHANGED <<now, intent, last, blocked, pos, pc, mem, entered, refused, signal, faults>>

\* Seeded bug: the job has no time limit.
MinutePassesUnlimited ==
    /\ now < LastMinute /\ now' = now + 1
    /\ UNCHANGED <<keys, pc, mem, entered, refused, signal, faults>>

MinutePasses ==
    /\ now < LastMinute /\ now' = now + 1
    /\ pc # "down" => now' - mem.since <= Budget
    /\ UNCHANGED <<keys, pc, mem, entered, refused, signal, faults>>

Next ==
    \/ LoadIntent \/ CheckPasses \/ CheckFails \/ Take \/ Drop \/ Stamp
    \/ AbortEntry \/ Enter \/ SavePosition \/ TickDies
    \/ PositionCloses \/ CooldownElapses
    \/ WriteIntent \/ ExpireIntent \/ SetKillSwitch \/ MinutePasses

Spec == Init /\ [][Next]_vars

-----------------------------------------------------------------------------
(* Safety. *)

\* No entry is sent for a signal older than its time to live and one job, nor
\* outside the entry window by more than one job (gates._check_time), although
\* nothing is checked again after the gate.
EntriesAreTimely ==
    \A e \in entered : /\ e.at - e.ts <= Ttl + Budget
                       /\ e.at >= WindowStart /\ e.at <= NoNewEntry + Budget

\* The cooldown of gates._check_cooldown: an entry comes at least Cooldown
\* after the signal of any other entry that is not younger, also when a tick died
\* between buying and saving and no position reminds of it.
CooldownRespected ==
    \A e, f \in entered : e # f /\ e.ts <= f.ts => f.at - e.ts >= Cooldown

\* gates.py:3: a refused intent "is discarded (not retried)", unless the tick
\* dies before it is deleted.
RefusedStaysRefused == faults = 0 => \A e \in entered : e.ts # refused

\* A kill switch left on ends all entries within one job (gates.py:6): only a
\* tick that read it before can still buy.
KillSwitchStops ==
    [][entered' # entered => kill = 0 \/ now - kill <= Budget]_vars
=============================================================================
