---------------------------- MODULE PortStartup ----------------------------
(***************************************************************************)
(* How the EtherTalk ports of the routers on one cable come up: the seed   *)
(* controller (seed.go), the address AARP probes for (aarp.go), the cable  *)
(* range and the direct route of the port (etalk_port.go), and the frames  *)
(* the routers exchange about them: AARP Probe and Response, ZIP GetNetInfo*)
(* and its reply, RTMP Data.                                               *)
(*                                                                         *)
(* A port runs four goroutines.  AARP (Run) owns the address; RunSeedState *)
(* wakes every 5 s, takes a snapshot of the controller (SeedTick) and acts *)
(* on it step by step (SeedAct and what follows it); RunRTMP broadcasts;   *)
(* Serve handles what arrives.                                             *)
(*                                                                         *)
(* Time.  A Probe goes out every 200 ms and a seed tick comes every 5 s,   *)
(* that is SeedPeriod AARP ticks later.  A frame has crossed the cable or   *)
(* is lost before a timer of its sender fires again (Settled), and RunRTMP *)
(* broadcasts (every 10 s) before or after a seed tick, not within it.     *)
(***************************************************************************)
EXTENDS Integers, FiniteSets

CONSTANTS Routers,       \* the routers on the cable
          Nodes,         \* the node numbers an address can have; 1 is tried first
          Startup,       \* the Phase 2 startup range, <<0xff00, 0xfffe>>
          ProbeLimit,    \* Probes sent before an address is taken (10)
          SeedPeriod,    \* AARP ticks from one seed tick to the next (25)
          DelayTicks,    \* seed ticks a soft seed waits before it takes over (6)
          TimeoutTicks,  \* seed ticks an unrefreshed authority lasts (18)
          Setups,        \* the cables considered: configuration, hosts and faults
          NoRange, NoZone

Modes == {"hard", "soft", "none", "absent"}
Faults == {"lose", "crash", "unlucky", "foreign"}

VARIABLES setup,    \* the member of Setups this behaviour is about
          left,     \* how many of each fault may still happen
          alive,    \* routers that have not crashed
          seed,     \* seedController of each port
          aarp,     \* AARPMachine of each port
          rangeCh,  \* its rangeCh, of capacity one
          loop,     \* RunSeedState's locals
          since,    \* AARP ticks since the last seed tick
          cable,    \* cableStart, cableEnd
          direct,   \* ranges of the direct routes to the port in the route table
          zoned,    \* those among them that have a zone, without which no lookup finds them
          wire      \* frames on their way

portVars == <<setup, left, alive, seed, aarp, rangeCh, loop, since, cable, direct, zoned, wire>>

mode(r) == setup.mode[r]
configured(r) == setup.range[r]
Others(r) == alive \ {r}

isPhase2StartupRange(rng) == rng[1] >= Startup[1] /\ rng[2] <= Startup[2]
Addresses(rng) == (rng[1] .. rng[2]) \X Nodes

\* The range a port owns: OperationalRange's three results.
Operational(r) == aarp[r].operational /\ aarp[r].assigned
OwnsRange(r, rng) == Operational(r) /\ aarp[r].range = rng
activeAuthority(s) == s.active /\ ~s.conflict

\* r's timers do not fire before its earlier frames and the answers to them have arrived.
Settled(r) ==
  \A f \in wire : f.from # r /\ ~(f.to = r /\ f.type \in {"response", "info"})

\* RunSeedState is between its snapshot and the end of the tick.
InSeedTick(r) == loop[r].pc \notin {"await", "wait", "returned"}

-----------------------------------------------------------------------------
(* The seed controller. *)

newSeedController(m) ==
  [active |-> m = "hard", authority |-> FALSE, conflict |-> FALSE,
   observed |-> NoRange, zone |-> NoZone, silent |-> 0]

\* observeRange: a mismatch disables the local seed for good; a soft seed yields to authority.
NeverYields(r, authority) == FALSE
yields(r, authority) == authority /\ mode(r) = "soft"
observeRange(r, rng, zone, authority) ==
  LET mismatch == \/ configured(r) # NoRange /\ rng # configured(r)
                  \/ zone # NoZone /\ setup.zone[r] # NoZone /\ zone # setup.zone[r]
  IN [seed[r] EXCEPT !.observed = rng,
                     !.zone = IF zone # NoZone THEN zone ELSE @,
                     !.authority = @ \/ authority,
                     !.silent = IF authority THEN 0 ELSE @,
                     !.conflict = @ \/ mismatch,
                     !.active = @ /\ ~mismatch /\ ~yields(r, authority)]

promoteSoft(r, s) ==
  [s EXCEPT !.active = @ \/ (mode(r) = "soft" /\ ~s.authority /\ ~s.conflict)]

-----------------------------------------------------------------------------
(* AARP: Run's select loop. *)

newAARPMachine(rng) ==
  [range |-> rng, addr |-> <<rng[1], 1>>, probes |-> 0, ticking |-> TRUE,
   assigned |-> FALSE, operational |-> FALSE, signaled |-> {}]

ProbesOf(r, a) ==
  {[type |-> "probe", from |-> r, to |-> q, addr |-> a] : q \in Others(r)}
    \cup {[type |-> "response", from |-> r, to |-> r, addr |-> h] : h \in setup.hosts \cap {a}}

\* case <-ticker: one more Probe (a host that has the address answers it), or the
\* address is ours, operational when it is not a startup address.
ProbedOnceLess(a) == a.probes >= ProbeLimit - 1
ProbedEnough(a) == a.probes >= ProbeLimit
AARPTick(r) ==
  LET a == aarp[r]
      op == a.operational \/ ~isPhase2StartupRange(a.range)
      now == {"assigned"} \cup (IF op THEN {"operational"} ELSE {})
  IN
  /\ r \in alive /\ a.ticking /\ Settled(r)
  /\ since' = [since EXCEPT ![r] = IF loop[r].pc = "await" \/ @ = SeedPeriod THEN @ ELSE @ + 1]
  /\ \/ /\ ProbedEnough(a)
        /\ aarp' = [aarp EXCEPT ![r] = [a EXCEPT !.assigned = TRUE, !.operational = op,
                                                 !.ticking = FALSE, !.signaled = @ \cup now]]
        /\ UNCHANGED wire
     \/ /\ ~ProbedEnough(a)
        /\ aarp' = [aarp EXCEPT ![r].probes = @ + 1]
        /\ wire' = wire \cup ProbesOf(r, a.addr)
  /\ UNCHANGED <<setup, left, alive, seed, rangeCh, loop, cable, direct, zoned>>

\* case rng := <-a.rangeCh.
AARPRebind(r) ==
  LET rng == rangeCh[r] IN
  /\ r \in alive /\ rng # NoRange
  /\ rangeCh' = [rangeCh EXCEPT ![r] = NoRange]
  /\ aarp' = IF aarp[r].range = rng /\ aarp[r].operational THEN aarp
             ELSE [aarp EXCEPT ![r] =
                     [newAARPMachine(rng) EXCEPT !.signaled = aarp[r].signaled]]
  /\ UNCHANGED <<setup, left, alive, seed, loop, since, cable, direct, zoned, wire>>

\* The addresses reroll may draw: another node number, any network of the range.
RerollChoices(r) == {a \in Addresses(aarp[r].range) : a[2] # aarp[r].addr[2]}
Contested(r, a) == a \in setup.hosts \/ \E q \in Others(r) : aarp[q].addr = a

\* reroll; only so many draws hit an address somebody else has or wants.
Reroll(r) ==
  \E a \in RerollChoices(r) :
    /\ Contested(r, a) => left["unlucky"] > 0
    /\ left' = IF Contested(r, a) THEN [left EXCEPT !["unlucky"] = @ - 1] ELSE left
    /\ aarp' = [aarp EXCEPT ![r].addr = a, ![r].probes = 0]

\* case ethFrame := <-a.incomingCh: a Probe or a Response.
AARPFrame(r) ==
  \E f \in wire :
    LET mine == f.addr = aarp[r].addr
        answer == [type |-> "response", from |-> r, to |-> f.from, addr |-> f.addr]
    IN
    /\ r \in alive /\ f.to = r /\ f.type \in {"probe", "response"}
    /\ \/ /\ mine /\ ~aarp[r].assigned
          /\ Reroll(r)
          /\ wire' = wire \ {f}
       \/ /\ mine /\ aarp[r].assigned /\ f.type = "probe"
          /\ wire' = (wire \ {f}) \cup {g \in {answer} : g.to \in alive}
          /\ UNCHANGED <<aarp, left>>
       \/ /\ ~mine \/ (aarp[r].assigned /\ f.type = "response")
          /\ wire' = wire \ {f}
          /\ UNCHANGED <<aarp, left>>
    /\ UNCHANGED <<setup, alive, seed, rangeCh, loop, since, cable, direct, zoned>>

-----------------------------------------------------------------------------
(* RunSeedState. *)

Rebind(r, rng) ==
  [rangeCh EXCEPT ![r] = IF @ # NoRange \/ isPhase2StartupRange(rng) THEN @ ELSE rng]

Discovery(r) ==
  IF aarp[r].assigned
  THEN {[type |-> "getinfo", from |-> r, to |-> q, zone |-> setup.zone[r]] : q \in Others(r)}
  ELSE {}

NoSnapshot == [observed |-> NoRange, authority |-> FALSE, active |-> FALSE]

\* Before the loop: the address is assigned, the first discovery goes out.
SeedStart(r) ==
  /\ r \in alive /\ loop[r].pc = "await" /\ "assigned" \in aarp[r].signaled
  /\ wire' = wire \cup Discovery(r)
  /\ loop' = [loop EXCEPT ![r].pc = IF mode(r) = "hard" THEN "returned" ELSE "wait"]
  /\ UNCHANGED <<setup, left, alive, seed, aarp, rangeCh, since, cable, direct, zoned>>

\* expireExternalAuthority, for the controller as the tick finds it; silent is the age of
\* lastAuthorityObservation in ticks.
NeverExpires(r, s) == FALSE
Expired(r, s) == mode(r) = "soft" /\ s.authority /\ s.silent > TimeoutTicks

\* case <-probe.C, up to the snapshot.  eligible counts the ticks left until
\* promotionEligibleAt; -1 is the zero time.
SeedTick(r) ==
  LET s == [seed[r] EXCEPT !.silent = IF seed[r].authority /\ mode(r) = "soft" /\ @ <= TimeoutTicks
                                       THEN @ + 1 ELSE @]
      gone == Expired(r, s)
      t == IF gone THEN [s EXCEPT !.authority = FALSE, !.silent = 0] ELSE s
      l == loop[r]
      waited == IF l.eligible > 0 THEN l.eligible - 1 ELSE l.eligible
  IN
  /\ r \in alive /\ l.pc = "wait" /\ Settled(r)
  /\ aarp[r].ticking => since[r] >= SeedPeriod
  /\ since' = [since EXCEPT ![r] = 0]
  /\ wire' = wire \cup Discovery(r)
  /\ seed' = [seed EXCEPT ![r] = t]
  /\ loop' = [loop EXCEPT ![r] =
        [pc |-> IF t.conflict THEN "wait" ELSE IF t.observed # NoRange THEN "act" ELSE "decide",
         snap |-> IF t.conflict THEN NoSnapshot
                  ELSE [observed |-> t.observed, authority |-> t.authority, active |-> t.active],
         eligible |-> IF gone THEN DelayTicks ELSE waited,
         requested |-> l.requested /\ ~gone]]
  /\ UNCHANGED <<setup, left, alive, aarp, rangeCh, cable, direct, zoned>>

\* The rest of the tick goes on from the snapshot one critical section at a time, and
\* Serve and AARP run between them.  First an observed range is followed, once AARP
\* owns it.
SeedAct(r) ==
  LET observed == loop[r].snap.observed IN
  /\ r \in alive /\ loop[r].pc = "act"
  /\ rangeCh' = Rebind(r, observed)
  /\ loop' = [loop EXCEPT ![r].pc = IF OwnsRange(r, observed) THEN "follow" ELSE "decide"]
  /\ UNCHANGED <<setup, left, alive, seed, aarp, since, cable, direct, zoned, wire>>

\* activateCableRange, for the observed range ("follow") or the configured one
\* ("takeover"): the route of the range it replaces is removed, and the new one gets
\* its zones, the configured ones under our authority, the observed one otherwise.  It
\* is one step: what Serve may do in its middle, it may as well do before or after.
Obsolete(r, rng) == IF isPhase2StartupRange(cable[r]) THEN {} ELSE {cable[r]} \ {rng}
activateCableRange(r) ==
  LET rng == IF loop[r].pc = "follow" THEN loop[r].snap.observed ELSE configured(r)
      named == activeAuthority(seed[r]) \/ seed[r].zone # NoZone
  IN
  /\ r \in alive /\ loop[r].pc \in {"follow", "takeover"}
  /\ cable' = [cable EXCEPT ![r] = rng]
  /\ direct' = [direct EXCEPT ![r] = (@ \ Obsolete(r, rng)) \cup {rng}]
  /\ zoned' = [zoned EXCEPT ![r] = (@ \ Obsolete(r, rng)) \cup (IF named THEN {rng} ELSE {})]
  /\ loop' = [loop EXCEPT ![r].pc = IF @ = "follow" THEN "decide" ELSE "promote"]
  /\ UNCHANGED <<setup, left, alive, seed, aarp, rangeCh, since, wire>>

\* A soft seed that nobody answered waits, rebinds into the configured range, and takes
\* over once AARP owns that range; every other seed is done with its tick.
PromotesAtOnce(r) == TRUE
MayPromote(r) == OwnsRange(r, configured(r))
SeedDecide(r) ==
  LET l == loop[r]
      done == [l EXCEPT !.pc = "wait", !.snap = NoSnapshot]
      external == l.snap.observed # NoRange /\ l.snap.authority
      idle == mode(r) # "soft" \/ l.snap.active
      due == ~external /\ ~idle /\ ~l.requested /\ l.eligible = 0
  IN
  /\ r \in alive /\ l.pc = "decide"
  /\ rangeCh' = IF due THEN Rebind(r, configured(r)) ELSE rangeCh
  /\ loop' = [loop EXCEPT ![r] =
       CASE external -> [done EXCEPT !.requested = FALSE, !.eligible = -1]
         [] ~external /\ idle -> done
         [] ~external /\ ~idle /\ l.requested ->
              IF MayPromote(r) THEN [l EXCEPT !.pc = "takeover"] ELSE done
         [] due -> [done EXCEPT !.requested = TRUE, !.eligible = -1]
         [] OTHER -> IF l.eligible = -1 THEN [done EXCEPT !.eligible = DelayTicks] ELSE done]
  /\ UNCHANGED <<setup, left, alive, seed, aarp, since, cable, direct, zoned, wire>>

\* promoteSoft: the controller as it is now decides, not the snapshot.
SeedPromote(r) ==
  LET s == promoteSoft(r, seed[r])
      done == [loop[r] EXCEPT !.pc = "wait", !.snap = NoSnapshot, !.requested = FALSE]
  IN
  /\ r \in alive /\ loop[r].pc = "promote"
  /\ seed' = [seed EXCEPT ![r] = s]
  /\ loop' = [loop EXCEPT ![r] = IF s # seed[r] THEN [done EXCEPT !.pc = "activate"] ELSE done]
  /\ UNCHANGED <<setup, left, alive, aarp, rangeCh, since, cable, direct, zoned, wire>>

\* After a promotion.
activateConfiguredZones(r) ==
  /\ r \in alive /\ loop[r].pc = "activate"
  /\ zoned' = [zoned EXCEPT ![r] = @ \cup ({cable[r]} \cap direct[r])]
  /\ loop' = [loop EXCEPT ![r].pc = "wait"]
  /\ UNCHANGED <<setup, left, alive, seed, aarp, rangeCh, since, cable, direct, wire>>

-----------------------------------------------------------------------------
(* RunRTMP and Serve. *)

\* broadcastRTMPData: the operational range becomes the cable range and is announced.
\* It comes every ten seconds, and not in the moment a seed tick takes.
RTMPBroadcast(r) ==
  /\ r \in alive /\ "operational" \in aarp[r].signaled /\ Operational(r)
  /\ Settled(r) /\ ~InSeedTick(r)
  /\ cable' = [cable EXCEPT ![r] = aarp[r].range]
  /\ wire' = wire \cup {[type |-> "rtmp", from |-> r, to |-> q, range |-> aarp[r].range] :
                          q \in Others(r)}
  /\ UNCHANGED <<setup, left, alive, seed, aarp, rangeCh, loop, since, direct, zoned>>

\* handleZIPGetNetInfo: only the authority answers, by broadcast; a zone it does not
\* have is answered with its default zone.
GetNetInfoReply(r, f) ==
  IF activeAuthority(seed[r])
  THEN {[type |-> "info", from |-> r, to |-> q, range |-> cable[r],
         zone |-> IF f.zone \in setup.zones[r] THEN f.zone ELSE setup.zone[r]] : q \in Others(r)}
  ELSE {}

\* Serve drops AppleTalk frames until an address is assigned; else HandleRTMP, HandleZIP.
Serve(r) ==
  \E f \in wire :
    /\ r \in alive /\ f.to = r /\ f.type \in {"getinfo", "info", "rtmp"}
    /\ \/ /\ ~aarp[r].assigned \/ f.type = "getinfo"
          /\ wire' = (wire \ {f}) \cup (IF aarp[r].assigned THEN GetNetInfoReply(r, f) ELSE {})
          /\ UNCHANGED seed
       \/ /\ aarp[r].assigned /\ f.type = "info"
          /\ wire' = wire \ {f}
          /\ seed' = [seed EXCEPT ![r] = observeRange(r, f.range, f.zone, TRUE)]
       \/ /\ aarp[r].assigned /\ f.type = "rtmp"
          /\ wire' = wire \ {f}
          /\ seed' = [seed EXCEPT ![r] = observeRange(r, f.range, NoZone, FALSE)]
    /\ UNCHANGED <<setup, left, alive, aarp, rangeCh, loop, since, cable, direct, zoned>>

-----------------------------------------------------------------------------
(* What can happen to the cable. *)

Spend(k) == left[k] > 0 /\ left' = [left EXCEPT ![k] = @ - 1]

\* A frame is lost.
Lose == /\ Spend("lose")
        /\ \E f \in wire : wire' = wire \ {f}
        /\ UNCHANGED <<setup, alive, seed, aarp, rangeCh, loop, since, cable, direct, zoned>>

\* A router stops, and the frames to it are gone.
Crash == /\ Spend("crash")
         /\ \E r \in alive : /\ r \in setup.mortal
                             /\ alive' = alive \ {r}
                             /\ wire' = {f \in wire : f.to # r}
         /\ UNCHANGED <<setup, seed, aarp, rangeCh, loop, since, cable, direct, zoned>>

\* A router of another make, with authority, tells r the range of the cable.
Foreign == /\ Spend("foreign")
           /\ \E r \in alive, rng \in setup.foreign :
                /\ aarp[r].assigned
                /\ wire' = wire \cup {[type |-> "info", from |-> "foreign", to |-> r,
                                       range |-> rng, zone |-> setup.foreignZone]}
           /\ UNCHANGED <<setup, alive, seed, aarp, rangeCh, loop, since, cable, direct, zoned>>
-----------------------------------------------------------------------------
(* NewEtherTalkPort: a hard seed has its cable range and its route at once. *)
newPortRange(s, r) == IF s.mode[r] = "hard" THEN s.range[r] ELSE Startup
newPortRoutes(s, r) == IF s.mode[r] = "hard" THEN {s.range[r]} ELSE {}

PortInit ==
  \E s \in Setups :
    /\ setup = s
    /\ left = s.faults
    /\ alive = {r \in Routers : s.mode[r] # "absent"}
    /\ seed = [r \in Routers |-> newSeedController(s.mode[r])]
    /\ aarp = [r \in Routers |-> newAARPMachine(newPortRange(s, r))]
    /\ rangeCh = [r \in Routers |-> NoRange]
    /\ loop = [r \in Routers |-> [pc |-> "await", snap |-> NoSnapshot,
                                  eligible |-> DelayTicks, requested |-> FALSE]]
    /\ since = [r \in Routers |-> 0]
    /\ cable = [r \in Routers |-> newPortRange(s, r)]
    /\ direct = [r \in Routers |-> newPortRoutes(s, r)]
    /\ zoned = [r \in Routers |-> newPortRoutes(s, r)]
    /\ wire = {}

SeedGoesOn(r) ==
  \/ SeedStart(r) \/ SeedAct(r) \/ activateCableRange(r) \/ SeedDecide(r)
  \/ SeedPromote(r) \/ activateConfiguredZones(r)
PortStep(r) ==
  \/ AARPTick(r) \/ AARPRebind(r) \/ AARPFrame(r)
  \/ SeedTick(r) \/ SeedGoesOn(r) \/ RTMPBroadcast(r) \/ Serve(r)
PortNext == (\E r \in Routers : PortStep(r)) \/ Lose \/ Crash \/ Foreign
PortSpec == PortInit /\ [][PortNext]_portVars

\* The goroutines keep running, and a timer that is due again and again fires.
PortFair == \A r \in Routers :
  /\ WF_portVars(AARPRebind(r) \/ AARPFrame(r)) /\ WF_portVars(Serve(r))
  /\ WF_portVars(SeedGoesOn(r))
  /\ SF_portVars(AARPTick(r) \/ SeedTick(r)) /\ SF_portVars(RTMPBroadcast(r))

-----------------------------------------------------------------------------
(* Properties. *)

\* Types; an AARP machine that has an address has stopped probing (Run's ticker is nil),
\* is operational only outside the startup range, and only routes have zones.
PortTypeOK ==
  /\ setup \in Setups
  /\ left \in [Faults -> Nat]
  /\ alive \subseteq Routers
  /\ \A r \in Routers :
       /\ seed[r].active \in BOOLEAN /\ seed[r].conflict \in BOOLEAN
       /\ seed[r].silent \in 0 .. TimeoutTicks + 1
       /\ aarp[r].addr \in Addresses(aarp[r].range)
       /\ aarp[r].probes \in 0 .. ProbeLimit
       /\ aarp[r].operational => aarp[r].assigned /\ ~isPhase2StartupRange(aarp[r].range)
       /\ aarp[r].assigned = ~aarp[r].ticking
       /\ loop[r].pc \in {"await", "wait", "act", "follow", "decide", "takeover", "promote",
                          "activate", "returned"}
       /\ loop[r].eligible \in -1 .. DelayTicks
       /\ since[r] \in 0 .. SeedPeriod
       /\ zoned[r] \subseteq direct[r]
  /\ \A f \in wire : f.from \in Routers \cup {"foreign"} /\ f.to \in alive

\* No two nodes of the cable hold one address: Run takes an address only after
\* ProbeLimit Probes that nobody answered and nobody else sent, so it survives the
\* loss of any ProbeLimit - 1 frames.
UniqueAddresses ==
  \A r \in alive : aarp[r].assigned =>
    /\ aarp[r].addr \notin setup.hosts
    /\ \A q \in alive \ {r} : aarp[q].assigned => aarp[q].addr # aarp[r].addr

\* "Seed authority is enabled only after AARP owns that range" (seed.go): a soft seed
\* that answers GetNetInfo holds an address in its configured range and announces that
\* range, whatever AARP and Serve did between RunSeedState's check and the promotion;
\* and the route to the range has a zone as soon as the promotion's own next step,
\* activateConfiguredZones, is done.
AuthorityOwnsRange ==
  \A r \in alive : mode(r) = "soft" /\ activeAuthority(seed[r]) =>
    /\ OwnsRange(r, configured(r))
    /\ cable[r] = configured(r)
    /\ configured(r) \in direct[r]
    /\ loop[r].pc # "activate" => configured(r) \in zoned[r]

\* A route replaced by the route of another range is gone: a port has at most one
\* direct route.
OneDirectRoute == \A r \in Routers : Cardinality(direct[r]) <= 1

\* A cable with a soft seed is never left without an authority for good: whatever
\* crashed or yielded, RunSeedState expires the old authority and promotes itself.
AuthorityReturns ==
  []<>( \/ \A r \in Routers : mode(r) # "soft"
        \/ \E r \in alive : activeAuthority(seed[r]) \/ seed[r].conflict)

\* A port is up: it holds an address in a real range and has a direct route with a zone.
Up(r) == /\ Operational(r) /\ cable[r] = aarp[r].range
         /\ direct[r] = {cable[r]} /\ zoned[r] = direct[r]

\* The cable settles: in the end every port is up, unless the cable contradicts its
\* configuration or a non-seed never hears of a range, and a soft seed that took over
\* before it heard the hard seed has yielded to it.
CableSettles ==
  <>[](\A r \in alive :
         /\ ~seed[r].conflict /\ (mode(r) # "none" \/ seed[r].observed # NoRange) => Up(r)
         /\ mode(r) = "soft" /\ (\E q \in alive : mode(q) = "hard") => ~activeAuthority(seed[r]))
=============================================================================
