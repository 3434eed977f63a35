------------------------------- MODULE Zones --------------------------------
(***************************************************************************)
(* The zones of inventory-service: a forest of zones, each with gateways,  *)
(* whose ancestry is the chain of jumps to a host.  Administrators move    *)
(* zones while terminal-service asks for the chain of one; every query of  *)
(* a request is a step of its own and reads what is committed then.        *)
(***************************************************************************)
EXTENDS SequencesExt

CONSTANTS Zone, NoZone,
          Endpoint,     \* host and port of a gateway
          Move,         \* the requests that create or update a zone
          Ask           \* the requests for a gateway chain

VARIABLES zone,      \* za_zones, and the gateways that lie in each zone
          move,      \* the requests of administrators
          ask        \* the chains being resolved

vars == <<zone, move, ask>>

Zones == [at : {"none", "there", "gone"}, parent : Zone \cup {NoZone},
          hosts : SUBSET Endpoint,     \* enabled hosts of type gateway
          legacy : SUBSET Endpoint]    \* rows of za_gateways

Moves == [pc : {"none", "walk", "save", "over"}, zone : Zone \cup {NoZone},
          new : BOOLEAN, parent : Zone \cup {NoZone},
          seen : SUBSET Zone, current : Zone \cup {NoZone}]

Asks == [pc : {"none", "up", "down", "over"}, current : Zone \cup {NoZone},
         path : Seq(Zone), chain : Seq(Endpoint)]

TypeOK ==
  /\ zone \in [Zone -> Zones]
  /\ move \in [Move -> Moves]
  /\ ask \in [Ask -> Asks]

Exists(z) == z \in Zone /\ zone[z].at = "there"

\* A deployment whose zones stand side by side.
Init ==
  /\ \E there \in SUBSET Zone, hosts, legacy \in [Zone -> SUBSET Endpoint] :
       zone = [z \in Zone |->
                 [at |-> IF z \in there THEN "there" ELSE "none", parent |-> NoZone,
                  hosts |-> IF z \in there THEN hosts[z] ELSE {},
                  legacy |-> IF z \in there THEN legacy[z] ELSE {}]]
  /\ move = [m \in Move |-> [pc |-> "none", zone |-> NoZone, new |-> FALSE,
                             parent |-> NoZone, seen |-> {}, current |-> NoZone]]
  /\ ask = [a \in Ask |-> [pc |-> "none", current |-> NoZone,
                           path |-> <<>>, chain |-> <<>>]]

------------------------------------------------------------------------------
(* An administrator creates or moves a zone. *)

\* _validate_parent_zone before its walk: no parent is fine, the zone itself
\* and an unknown zone are refused.
StartPc(z, p) ==
  IF p = NoZone THEN "save" ELSE IF p = z \/ ~Exists(p) THEN "over" ELSE "walk"

CreateZone(m) ==
  /\ move[m].pc = "none"
  /\ \E z \in Zone, p \in Zone \cup {NoZone} :
       /\ zone[z].at = "none"
       /\ p # z
       /\ move' = [move EXCEPT ![m] = [@ EXCEPT !.pc = StartPc(NoZone, p), !.zone = z,
                     !.new = TRUE, !.parent = p, !.current = p]]
  /\ UNCHANGED <<zone, ask>>

UpdateZone(m) ==
  /\ move[m].pc = "none"
  /\ \E z \in Zone, p \in Zone \cup {NoZone} :
       /\ Exists(z)
       /\ move' = [move EXCEPT ![m] = [@ EXCEPT !.pc = StartPc(z, p), !.zone = z,
                     !.parent = p, !.current = p]]
  /\ UNCHANGED <<zone, ask>>

\* Bug: an ancestry is walked to its root.
GoesOnToRoot(current, seen) == current # NoZone

\* A walk of an ancestry goes on: not at a root, and not where it was before.
GoesOn(current, seen) == current # NoZone /\ current \notin seen

\* One query of the walk from the new parent: the zone itself is not among its
\* ancestors (a new zone has no id to meet).
ValidateParent(m) ==
  LET c == move[m].current
  IN /\ move[m].pc = "walk"
     /\ move' = [move EXCEPT ![m] =
          IF ~GoesOn(c, move[m].seen) THEN [@ EXCEPT !.pc = "save"]
          ELSE IF c = move[m].zone /\ ~move[m].new THEN [@ EXCEPT !.pc = "over"]
          ELSE [@ EXCEPT !.seen = move[m].seen \cup {c},
                         !.current = IF Exists(c) THEN zone[c].parent ELSE NoZone]]
     /\ UNCHANGED <<zone, ask>>

\* The commit, which a parent or a zone deleted meanwhile makes fail.
SaveZone(m) ==
  LET z == move[m].zone
      p == move[m].parent
      accepted == /\ p = NoZone \/ Exists(p)
                  /\ zone[z].at = IF move[m].new THEN "none" ELSE "there"
  IN /\ move[m].pc = "save"
     /\ move' = [move EXCEPT ![m].pc = "over"]
     /\ zone' = IF accepted
                THEN [zone EXCEPT ![z].at = "there", ![z].parent = p] ELSE zone
     /\ UNCHANGED ask

\* The children of a deleted zone become roots, and its gateways lie nowhere.
DeleteZone(z) ==
  /\ Exists(z)
  /\ zone' = [y \in Zone |->
       IF y = z THEN [at |-> "gone", parent |-> NoZone, hosts |-> {}, legacy |-> {}]
       ELSE [zone[y] EXCEPT !.parent = IF @ = z THEN NoZone ELSE @]]
  /\ UNCHANGED <<move, ask>>

\* create_gateway, update_gateway, delete_gateway.
EditGateways(z) ==
  /\ Exists(z)
  /\ \E es \in SUBSET Endpoint : zone' = [zone EXCEPT ![z].legacy = es]
  /\ UNCHANGED <<move, ask>>

\* A host becomes or stops being an enabled gateway of the zone.
EditGatewayHosts(z) ==
  /\ Exists(z)
  /\ \E es \in SUBSET Endpoint : zone' = [zone EXCEPT ![z].hosts = es]
  /\ UNCHANGED <<move, ask>>

------------------------------------------------------------------------------
(* terminal-service asks for the chain of a zone. *)

AskChain(a) ==
  /\ ask[a].pc = "none"
  /\ \E z \in Zone : ask' = [ask EXCEPT ![a].pc = "up", ![a].current = z]
  /\ UNCHANGED <<zone, move>>

\* One zone on the way up; the path ends up with the root ancestor first.
ClimbZone(a) ==
  LET c == ask[a].current
      on == GoesOn(c, ToSet(ask[a].path)) /\ Exists(c)
  IN /\ ask[a].pc = "up"
     /\ ask' = [ask EXCEPT ![a] =
          IF on THEN [@ EXCEPT !.path = <<c>> \o ask[a].path, !.current = zone[c].parent]
          ELSE [@ EXCEPT !.pc = "down"]]
     /\ UNCHANGED <<zone, move>>

\* The gateways of a zone: its gateway hosts, else its old gateways.
Candidates(z) == IF zone[z].hosts # {} THEN zone[z].hosts ELSE zone[z].legacy

\* One zone on the way down: each of its gateways not met further out is a hop.
CollectHops(a) ==
  /\ ask[a].pc = "down"
  /\ ask' = [ask EXCEPT ![a] =
       IF ask[a].path = <<>> THEN [@ EXCEPT !.pc = "over"]
       ELSE [@ EXCEPT !.path = Tail(ask[a].path),
               !.chain = ask[a].chain \o
                           SetToSeq(Candidates(Head(ask[a].path)) \ ToSet(ask[a].chain))]]
  /\ UNCHANGED <<zone, move>>

Next ==
  \/ \E m \in Move : CreateZone(m) \/ UpdateZone(m) \/ ValidateParent(m) \/ SaveZone(m)
  \/ \E z \in Zone : DeleteZone(z) \/ EditGateways(z) \/ EditGatewayHosts(z)
  \/ \E a \in Ask : AskChain(a) \/ ClimbZone(a) \/ CollectHops(a)

Spec == Init /\ [][Next]_vars

------------------------------------------------------------------------------

\* A walk climbs no zone twice, also when two administrators have made a cycle
\* of zones, and no gateway is a hop twice: the chain ends, and no jump goes
\* from a host to itself.
ChainIsPath ==
  \A a \in Ask : IsInjective(ask[a].path) /\ IsInjective(ask[a].chain)

\* The zones above a zone.
Above(z) ==
  LET up[n \in 0..Cardinality(Zone)] ==
        IF n = 0 THEN {zone[z].parent} \ {NoZone}
        ELSE up[n - 1] \cup ({zone[y].parent : y \in up[n - 1]} \ {NoZone})
  IN up[Cardinality(Zone)]

\* No zone is its own ancestor (zone_gateway_chain: "A zone CYCLE is already
\* impossible (_validate_parent_zone rejects one at write time...").  It does
\* not hold: two moves validated side by side close a cycle.
NoZoneCycle == \A z \in Zone : z \notin Above(z)

==============================================================================
