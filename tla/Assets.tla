------------------------------- MODULE Assets -------------------------------
(***************************************************************************)
(* The hosts of inventory-service, their groups, and the copy of the hosts *)
(* of Zabbix among them.  A synchronisation reads Zabbix once, upserts     *)
(* host after host in one transaction and commits it at the end, while     *)
(* administrators create, edit and delete hosts.  A request may name the   *)
(* Zabbix host of a row, which the forms of the console never do.          *)
(***************************************************************************)
EXTENDS FiniteSets, Naturals

CONSTANTS Host,         \* the ids of za_hosts
          ZbxHost,      \* hostids of Zabbix
          None,
          Group,        \* host groups, of Zabbix and of za_host_groups
          Edit,         \* the updates of hosts
          Sync,         \* the synchronisations
          MaxChanges    \* bound on changes within Zabbix

VARIABLES host,      \* za_hosts with za_host_group_members
          zbx,       \* Zabbix: where its hosts are
          edit,      \* the updates being handled
          sync,      \* the synchronisations under way
          changes    \* how often Zabbix has changed

vars == <<host, zbx, edit, sync, changes>>

\* origin is for the properties only: the Zabbix host that a synchronisation
\* made the row for, or that a request named for it since.
Hosts == [at : {"none", "there", "gone"}, zid : ZbxHost \cup {None},
          groups : SUBSET Group, origin : ZbxHost \cup {None}]

ZbxHosts == [at : {"on", "off", "gone"}, groups : SUBSET Group]

TypeOK ==
  /\ host \in [Host -> Hosts]
  /\ zbx \in [ZbxHost -> ZbxHosts]
  /\ edit \in [Edit -> [pc : {"none", "save", "over"}, host : Host \cup {None},
                        groups : SUBSET Group, zid : ZbxHost \cup {None},
                        members : SUBSET Group]]
  /\ sync \in [Sync -> [pc : {"none", "walk", "over", "failed"},
                        list : [ZbxHost -> ZbxHosts], todo : SUBSET ZbxHost,
                        made : [ZbxHost -> Host \cup {None}],
                        took : [ZbxHost -> Host \cup {None}]]]
  /\ changes \in 0..MaxChanges

Nowhere == [at |-> "none", zid |-> None, groups |-> {}, origin |-> None]

Init ==
  /\ host = [h \in Host |-> Nowhere]
  /\ zbx \in [ZbxHost -> {[at |-> "on", groups |-> gs] : gs \in SUBSET Group}]
  /\ edit = [e \in Edit |-> [pc |-> "none", host |-> None, groups |-> {}, zid |-> None,
                             members |-> {}]]
  /\ sync = [s \in Sync |-> [pc |-> "none", list |-> zbx, todo |-> {},
                             made |-> [z \in ZbxHost |-> None],
                             took |-> [z \in ZbxHost |-> None]]]
  /\ changes = 0

There(h) == host[h].at = "there"
RowOf(z) == {h \in Host : There(h) /\ host[h].zid = z}

\* Rows that open transactions have inserted.
Inserted == (UNION {{sync[s].made[z] : z \in ZbxHost} : s \in Sync}) \ {None}

Free == {h \in Host : host[h].at = "none"} \ Inserted

------------------------------------------------------------------------------
(* Administrators. *)

\* zabbix_hostid is unique.
MayHave(h, z) == z = None \/ RowOf(z) \subseteq {h}

\* create_host demands a group, and takes a zabbix_hostid if one is sent.
CreateHost(h) ==
  /\ h \in Free
  /\ \E gs \in (SUBSET Group) \ {{}}, z \in ZbxHost \cup {None} :
       /\ MayHave(h, z)
       /\ host' = [host EXCEPT ![h] = [at |-> "there", zid |-> z, groups |-> gs, origin |-> z]]
  /\ UNCHANGED <<zbx, edit, sync, changes>>

\* update_host reads the row and its memberships.  A zabbix_hostid that is the
\* row's own is no change, and is not written.
ReadForUpdate(e) ==
  /\ edit[e].pc = "none"
  /\ \E h \in Host, gs \in SUBSET Group, z \in ZbxHost \cup {None} :
       /\ There(h)
       /\ edit' = [edit EXCEPT ![e] = [pc |-> "save", host |-> h, groups |-> gs,
                                       zid |-> IF z = host[h].zid THEN None ELSE z,
                                       members |-> host[h].groups]]
  /\ UNCHANGED <<host, zbx, sync, changes>>

\* Bug: the request's zabbix_hostid is stored as every other field is.
LinkAsSent(sent, stored) == sent

\* The link to Zabbix is kept unless the request names one.
LinkAfter(sent, stored) == IF sent # None THEN sent ELSE stored

\* The memberships that were read are deleted and the ones asked for inserted;
\* one that somebody else inserted meanwhile stays, or collides.
SaveUpdate(e) ==
  LET h == edit[e].host
      others == host[h].groups \ edit[e].members
      zid == LinkAfter(edit[e].zid, host[h].zid)
      accepted == There(h) /\ others \cap edit[e].groups = {} /\ MayHave(h, zid)
  IN /\ edit[e].pc = "save"
     /\ edit' = [edit EXCEPT ![e].pc = "over"]
     /\ host' = IF accepted
                THEN [host EXCEPT ![h].groups = others \cup edit[e].groups,
                                  ![h].zid = zid,
                                  ![h].origin = IF edit[e].zid = None THEN host[h].origin
                                                ELSE edit[e].zid]
                ELSE host
     /\ UNCHANGED <<zbx, sync, changes>>

\* delete_host leaves the hosts of Zabbix to the sync.
DeleteHost(h) ==
  /\ There(h)
  /\ host[h].zid = None
  /\ host' = [host EXCEPT ![h].at = "gone", ![h].groups = {}]
  /\ UNCHANGED <<zbx, edit, sync, changes>>

------------------------------------------------------------------------------
(* Zabbix, and the synchronisation with it. *)

ZabbixChanges(z) ==
  /\ changes < MaxChanges
  /\ zbx[z].at # "gone"
  /\ \E row \in ZbxHosts : row # zbx[z] /\ zbx' = [zbx EXCEPT ![z] = row]
  /\ changes' = changes + 1
  /\ UNCHANGED <<host, edit, sync>>

\* host.get answers; disabled hosts are passed over.
FetchHosts(s) ==
  /\ sync[s].pc = "none"
  /\ sync' = [sync EXCEPT ![s].pc = "walk", ![s].list = zbx,
                          ![s].todo = {z \in ZbxHost : zbx[z].at = "on"}]
  /\ UNCHANGED <<host, zbx, edit, changes>>

\* One host of the list: a row committed for it is taken, else one inserted.
UpsertHost(s, z) ==
  /\ sync[s].pc = "walk"
  /\ z \in sync[s].todo
  /\ IF RowOf(z) # {}
     THEN \E h \in RowOf(z) :
            sync' = [sync EXCEPT ![s].todo = @ \ {z}, ![s].took[z] = h]
     ELSE \E h \in Free :
            sync' = [sync EXCEPT ![s].todo = @ \ {z}, ![s].made[z] = h]
  /\ UNCHANGED <<host, zbx, edit, changes>>

\* The commit: memberships are added to the ones there are, of the rows taken
\* whatever they are linked to by now.  Of two that inserted a row for one host
\* the second fails.
CommitSync(s) ==
  LET made == sync[s].made
      listed == {z \in ZbxHost : sync[s].list[z].at = "on"}
      named(h) == UNION {sync[s].list[z].groups :
                           z \in {y \in listed : h \in {made[y], sync[s].took[y]}}}
      accepted == \A z \in listed : made[z] # None => RowOf(z) = {}
      written(h) == IF \E z \in listed : made[z] = h
                    THEN LET z == CHOOSE y \in listed : made[y] = h
                         IN [at |-> "there", zid |-> z, origin |-> z, groups |-> named(h)]
                    ELSE [host[h] EXCEPT !.groups = @ \cup named(h)]
  IN /\ sync[s].pc = "walk"
     /\ sync[s].todo = {}
     /\ sync' = [sync EXCEPT ![s].pc = IF accepted THEN "over" ELSE "failed",
                             ![s].made = [z \in ZbxHost |-> None],
                             ![s].took = [z \in ZbxHost |-> None]]
     /\ host' = IF accepted THEN [h \in Host |-> written(h)] ELSE host
     /\ UNCHANGED <<zbx, edit, changes>>

Next ==
  \/ \E h \in Host : CreateHost(h) \/ DeleteHost(h)
  \/ \E e \in Edit : ReadForUpdate(e) \/ SaveUpdate(e)
  \/ \E z \in ZbxHost : ZabbixChanges(z)
  \/ \E s \in Sync : FetchHosts(s) \/ CommitSync(s) \/ \E z \in ZbxHost : UpsertHost(s, z)

Spec == Init /\ [][Next]_vars

------------------------------------------------------------------------------

\* A host of Zabbix has one row, whatever edits and synchronisations overlap:
\* no edit that does not name the link loses it, which would make the next
\* synchronisation insert a second row.  A row that a request re-links counts
\* for the host it names from then on; the one it was of gets a new row.
ZabbixHostHasOneRow ==
  \A z \in ZbxHost : Cardinality({h \in Host : There(h) /\ host[h].origin = z}) <= 1

\* A host is in a group (create_host: "An asset must belong to at least one
\* group").  It does not hold: an update takes the last one away.
EveryHostHasGroup == \A h \in Host : There(h) => host[h].groups # {}

\* A host removed in Zabbix is gone after a synchronisation (delete_host:
\* "remove the host in Zabbix and re-sync instead").  It does not hold: the
\* synchronisation passes over it and its row can never be deleted.
RemovedHostGoes ==
  [][\A s \in Sync : sync[s].pc = "walk" /\ sync'[s].pc = "over" =>
       \A z \in ZbxHost : sync[s].list[z].at = "gone" => {h \in Host : host'[h].zid = z} = {}]_vars

==============================================================================
