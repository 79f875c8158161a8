----------------------------- MODULE TableLocks -----------------------------
(***************************************************************************)
(* The locks of the route table (router/route_table.go, router/zones.go,   *)
(* and the event queue of router/aurp_peer.go, which observers lock), in   *)
(* the order in which its operations take and release them.  All calls are *)
(* for one class and one network: no operation holds the locks of two      *)
(* networks or two classes at once.                                        *)
(*                                                                         *)
(* A lock is a sync.RWMutex.  A writer first announces itself and then     *)
(* waits for the readers; from then on new readers block, until the writer *)
(* unlocks and admits all of them.  pendingEventsMu has writers only.      *)
(***************************************************************************)
EXTENDS Integers, Sequences, FiniteSets

CONSTANTS
  Threads,  \* goroutines
  Calls,    \* the operations each of them calls
  None

LockNames == {"class", "network", "zone", "observers", "events"}

-----------------------------------------------------------------------------
\* Operations, as the sequence of what they do to the locks.

Locked(l, body) == <<<<"Lock", l>>>> \o body \o <<<<"Unlock", l>>>>
RLocked(l, body) == <<<<"RLock", l>>>> \o body \o <<<<"RUnlock", l>>>>

Lookup == RLocked("network", <<>>)
InformObservers == RLocked("observers", Locked("events", <<>>))

\* clearZonesForNetworkIfNoRoutes returns early, or changes both indexes.
ClearZones == {Locked("network", <<>>), Locked("network", Locked("zone", <<>>))}

\* Mutant: the reverse index is locked first.
ZoneFirst == {Lookup \o Locked("zone", Locked("network", <<>>)) \o Lookup \o InformObservers}

\* AddZonesToNetwork and ReplaceZonesForNetwork.
SetZones == {Lookup \o Locked("network", Locked("zone", <<>>)) \o Lookup \o InformObservers}

UpsertRoute ==
  {Lookup \o RLocked("class", <<>>) \o Locked("class", <<>>) \o Locked("network", <<>>)
     \o c \o Lookup \o InformObservers : c \in ClearZones}

DeleteRoute ==
  {Lookup \o Locked("class", <<>>) \o Locked("network", <<>>)
     \o c \o Lookup \o InformObservers : c \in ClearZones}

\* aurpExportedRoutes calls Lookup from within ValidRoutesForClass.
ExportedRoutes == {RLocked("class", Lookup)}

\* RoutesForZone calls Lookup with the network locked.
RoutesForZone == {RLocked("zone", <<>>) \o RLocked("network", Lookup)}

\* Mutant: the lock is not released on return.
ZoneNamesLocked == {<<<<"RLock", "zone">>>>}

AllZoneNames == {RLocked("zone", <<>>)}
TakePendingEvents == {Locked("events", <<>>)}
AddObserver == {Locked("observers", <<>>)}

Scripts(op) ==
  CASE op = "UpsertRoute" -> UpsertRoute
    [] op = "DeleteRoute" -> DeleteRoute
    [] op = "SetZones" -> SetZones
    [] op = "ExportedRoutes" -> ExportedRoutes
    [] op = "RoutesForZone" -> RoutesForZone
    [] op = "AllZoneNames" -> AllZoneNames
    [] op = "TakePendingEvents" -> TakePendingEvents
    [] op = "AddObserver" -> AddObserver

OpNames == {"UpsertRoute", "DeleteRoute", "SetZones", "ExportedRoutes", "RoutesForZone",
            "AllZoneNames", "TakePendingEvents", "AddObserver"}

ASSUME CallsAssumption == Calls \in [Threads -> SUBSET OpNames] /\ None \notin Threads

-----------------------------------------------------------------------------
VARIABLES
  script,   \* what each thread has still to do
  writer,   \* the writer that has announced itself, or holds the lock
  readers,  \* how often each thread holds the lock for reading
  blocked   \* readers that wait for the writer

vars == <<script, writer, readers, blocked>>

Does(t, what, l) == script[t] # <<>> /\ Head(script[t]) = <<what, l>>
Idle(t) == script[t] = <<>>
Free(l) == \A t \in Threads : readers[l][t] = 0

Begin(t) ==
  /\ Idle(t)
  /\ \E op \in Calls[t] : \E s \in Scripts(op) : script' = [script EXCEPT ![t] = s]
  /\ UNCHANGED <<writer, readers, blocked>>

Advance(T) == script' = [t \in Threads |-> IF t \in T THEN Tail(script[t]) ELSE script[t]]

\* Lock.
Announce(t, l) ==
  /\ Does(t, "Lock", l) /\ writer[l] = None
  /\ writer' = [writer EXCEPT ![l] = t]
  /\ UNCHANGED <<script, readers, blocked>>

Acquire(t, l) ==
  /\ Does(t, "Lock", l) /\ writer[l] = t /\ Free(l)
  /\ Advance({t})
  /\ UNCHANGED <<writer, readers, blocked>>

\* Unlock admits the readers that wait.
Unlock(t, l) ==
  /\ Does(t, "Unlock", l)
  /\ writer' = [writer EXCEPT ![l] = None]
  /\ readers' = [readers EXCEPT ![l] =
                   [r \in Threads |-> IF r \in blocked[l] THEN @[r] + 1 ELSE @[r]]]
  /\ blocked' = [blocked EXCEPT ![l] = {}]
  /\ Advance({t} \cup blocked[l])

RLock(t, l) ==
  /\ Does(t, "RLock", l) /\ writer[l] = None
  /\ readers' = [readers EXCEPT ![l][t] = @ + 1]
  /\ Advance({t})
  /\ UNCHANGED <<writer, blocked>>

Block(t, l) ==
  /\ Does(t, "RLock", l) /\ writer[l] # None /\ t \notin blocked[l]
  /\ blocked' = [blocked EXCEPT ![l] = @ \cup {t}]
  /\ UNCHANGED <<script, writer, readers>>

RUnlock(t, l) ==
  /\ Does(t, "RUnlock", l)
  /\ readers' = [readers EXCEPT ![l][t] = @ - 1]
  /\ Advance({t})
  /\ UNCHANGED <<writer, blocked>>

Init ==
  /\ script = [t \in Threads |-> <<>>]
  /\ writer = [l \in LockNames |-> None]
  /\ readers = [l \in LockNames |-> [t \in Threads |-> 0]]
  /\ blocked = [l \in LockNames |-> {}]

Run(t) ==
  \E l \in LockNames :
    \/ Announce(t, l) \/ Acquire(t, l) \/ Unlock(t, l)
    \/ RLock(t, l) \/ Block(t, l) \/ RUnlock(t, l)

Next == \E t \in Threads : Begin(t) \/ Run(t)

Spec == Init /\ [][Next]_vars

-----------------------------------------------------------------------------
\* The locks keep their type, and a call that has returned leaves nothing
\* locked, on its early returns either.
TypeOK ==
  /\ writer \in [LockNames -> Threads \cup {None}]
  /\ readers \in [LockNames -> [Threads -> 0..2]]
  /\ blocked \in [LockNames -> SUBSET Threads]
  /\ \A t \in Threads, l \in LockNames :
       Idle(t) => writer[l] # t /\ readers[l][t] = 0 /\ t \notin blocked[l]

\* A thread can take its next step.
CanRun(t) ==
  LET what == Head(script[t])[1]
      l == Head(script[t])[2]
  IN  CASE what = "Lock" -> writer[l] = None \/ (writer[l] = t /\ Free(l))
        [] what = "RLock" -> writer[l] = None
        [] OTHER -> TRUE

\* The calls of the table never all wait for one another: AddZonesToNetwork
\* has "one lock order: network first, reverse index second", and RoutesForZone
\* locks a network twice since the "reader side of lock is shared, so we're
\* good".  Two calls that waited for each other while others go on would be
\* found as well, when those others have returned.
SomeoneGoesOn ==
  (\E t \in Threads : ~Idle(t)) => \E t \in Threads : ~Idle(t) /\ CanRun(t)
=============================================================================
