----------------------------- MODULE LogShipper -----------------------------
(***************************************************************************)
(* The log shipper of inventory-service: every tick it reads the routing   *)
(* of log categories to targets, and for each target the lines of a log    *)
(* file from the offset it has kept, writes them as a batch, and saves the *)
(* offsets at the end of the tick.  One file stands for all: they share    *)
(* nothing but the saving.  Files are append-only until something rotates  *)
(* them.                                                                   *)
(***************************************************************************)
EXTENDS Naturals, Sequences

CONSTANTS Target,        \* elasticsearch, s3
          Category,      \* app, audit, ...
          MaxBatch,      \* MAX_LINES_PER_FILE
          MaxLines,      \* bound on the lines written
          MaxEdits,      \* bound on the changes of the configuration
          MaxRotations,  \* bound on the rotations of the file
          MaxFaults      \* bound on failing writes and stops

VARIABLES config,    \* za_log_backend_config: the routing, and the targets with an address
          file,      \* the lines of the file; the last is being written while partial
          partial,
          saved,     \* .ship-state.json: per target the lines already shipped
          tick,      \* the shipper
          shipped,   \* what the targets hold: <<target, line>>
          passed,    \* lines passed over: another target's, or the target has no address
          used       \* how much of the bounds is used up

vars == <<config, file, partial, saved, tick, shipped, passed, used>>

Lines == [id : 1..MaxLines, category : Category]
Configs == [routing : [Category -> SUBSET Target], address : SUBSET Target]
Offsets == [Target -> 0..MaxLines]

TypeOK ==
  /\ config \in Configs
  /\ file \in Seq(Lines)
  /\ partial \in BOOLEAN
  /\ saved \in Offsets
  /\ tick \in [pc : {"sleep", "walk", "write", "save"}, config : Configs,
               offsets : Offsets, todo : SUBSET Target, target : Target,
               batch : SUBSET Lines, new : 0..MaxLines]
  /\ shipped \subseteq Target \X (1..MaxLines)
  /\ passed \subseteq {"other", "void"} \X Target \X (1..MaxLines)

Init ==
  /\ config \in Configs
  /\ file = <<>>
  /\ partial = FALSE
  /\ saved = [t \in Target |-> 0]
  /\ tick = [pc |-> "sleep", config |-> config, offsets |-> saved, todo |-> {},
             target |-> CHOOSE t \in Target : TRUE, batch |-> {}, new |-> 0]
  /\ shipped = {}
  /\ passed = {}
  /\ used = [lines |-> 0, edits |-> 0, rotations |-> 0, faults |-> 0]

------------------------------------------------------------------------------
(* The services, the administrator and the operating system. *)

\* A service begins to write a line: the shipper may see a part of it.
BeginLine(c) ==
  /\ used.lines < MaxLines
  /\ ~partial
  /\ file' = Append(file, [id |-> used.lines + 1, category |-> c])
  /\ partial' = TRUE
  /\ used' = [used EXCEPT !.lines = @ + 1]
  /\ UNCHANGED <<config, saved, tick, shipped, passed>>

EndLine ==
  /\ partial
  /\ partial' = FALSE
  /\ UNCHANGED <<config, file, saved, tick, shipped, passed, used>>

Rotate ==
  /\ used.rotations < MaxRotations
  /\ ~partial
  /\ file # <<>>
  /\ file' = <<>>
  /\ used' = [used EXCEPT !.rotations = @ + 1]
  /\ UNCHANGED <<config, partial, saved, tick, shipped, passed>>

PutConfig ==
  /\ used.edits < MaxEdits
  /\ config' \in Configs
  /\ config' # config
  /\ used' = [used EXCEPT !.edits = @ + 1]
  /\ UNCHANGED <<file, partial, saved, tick, shipped, passed>>

------------------------------------------------------------------------------
(* One tick. *)

\* The targets that the routing names for some category.
InUse(routing) == UNION {routing[c] : c \in Category}

\* _file_offsets: the saved offset of every target in use.
Begin ==
  /\ tick.pc = "sleep"
  /\ InUse(config.routing) # {}
  /\ tick' = [tick EXCEPT !.pc = "walk", !.config = config, !.offsets = saved,
                          !.todo = InUse(config.routing)]
  /\ UNCHANGED <<config, file, partial, saved, shipped, passed, used>>

\* An offset beyond the end is one of a file that was rotated.
StartOf(t) == IF tick.offsets[t] > Len(file) THEN 0 ELSE tick.offsets[t]

\* The complete lines from the offset on, as many as a batch takes.
Complete == IF partial THEN Len(file) - 1 ELSE Len(file)
EndOf(t) == IF StartOf(t) + MaxBatch < Complete THEN StartOf(t) + MaxBatch ELSE Complete

ReadBatch(t) ==
  LET read == {file[i] : i \in (StartOf(t) + 1)..EndOf(t)}
      wanted == {l \in read : t \in tick.config.routing[l.category]}
  IN /\ tick.pc = "walk"
     /\ t \in tick.todo
     /\ StartOf(t) < Len(file)
     /\ tick' = [tick EXCEPT !.pc = "write", !.todo = @ \ {t}, !.target = t,
                             !.batch = wanted, !.new = EndOf(t)]
     /\ passed' = passed \cup {<<"other", t, l.id>> : l \in read \ wanted}
     /\ UNCHANGED <<config, file, partial, saved, shipped, used>>

NothingNew(t) ==
  /\ tick.pc = "walk"
  /\ t \in tick.todo
  /\ StartOf(t) = Len(file)
  /\ tick' = [tick EXCEPT !.todo = @ \ {t}]
  /\ UNCHANGED <<config, file, partial, saved, shipped, passed, used>>

\* The target takes the batch; one without an address takes it silently.
WriteBatch ==
  LET t == tick.target
  IN /\ tick.pc = "write"
     /\ tick' = [tick EXCEPT !.pc = "walk", !.offsets[t] = tick.new]
     /\ IF t \in tick.config.address
        THEN /\ shipped' = shipped \cup {<<t, l.id>> : l \in tick.batch}
             /\ UNCHANGED passed
        ELSE /\ passed' = passed \cup {<<"void", t, l.id>> : l \in tick.batch}
             /\ UNCHANGED shipped
     /\ UNCHANGED <<config, file, partial, saved, used>>

\* Bug: the offset moves on after a failed write.
AfterFailureOnwards(t) == [tick.offsets EXCEPT ![t] = tick.new]

\* The offset moves on success only: the batch is read again.
AfterFailure(t) == tick.offsets

\* The write fails: nothing arrives, or the answer alone is lost.
WriteFails ==
  LET t == tick.target
  IN /\ tick.pc = "write"
     /\ used.faults < MaxFaults
     /\ t \in tick.config.address
     /\ tick' = [tick EXCEPT !.pc = "walk", !.offsets = AfterFailure(t)]
     /\ \/ shipped' = shipped \cup {<<t, l.id>> : l \in tick.batch}
        \/ UNCHANGED shipped
     /\ used' = [used EXCEPT !.faults = @ + 1]
     /\ UNCHANGED <<config, file, partial, saved, passed>>

\* The offsets of the targets in use replace the file's entry: one that was not
\* in use starts over when it is again.
SaveOffsets ==
  /\ tick.pc = "walk"
  /\ tick.todo = {}
  /\ saved' = [t \in Target |->
                 IF t \in InUse(tick.config.routing) THEN tick.offsets[t] ELSE 0]
  /\ tick' = [tick EXCEPT !.pc = "sleep"]
  /\ UNCHANGED <<config, file, partial, shipped, passed, used>>

\* The process stops within a tick, or the offsets cannot be saved.
Stop ==
  /\ tick.pc # "sleep"
  /\ used.faults < MaxFaults
  /\ tick' = [tick EXCEPT !.pc = "sleep"]
  /\ used' = [used EXCEPT !.faults = @ + 1]
  /\ UNCHANGED <<config, file, partial, saved, shipped, passed>>

Next ==
  \/ \E c \in Category : BeginLine(c)
  \/ EndLine \/ Rotate \/ PutConfig \/ Begin \/ WriteBatch \/ WriteFails \/ SaveOffsets \/ Stop
  \/ \E t \in Target : ReadBatch(t) \/ NothingNew(t)

Spec == Init /\ [][Next]_vars

------------------------------------------------------------------------------

\* The target has the line, or it was not meant for it when it was read.
Arrived(t, l) == <<t, l.id>> \in shipped \/ <<"other", t, l.id>> \in passed

\* What lies before a saved offset has reached its target or was passed over
\* for a reason: failing writes, stops, lines half written and changes of the
\* routing lose none of a file that is never rotated.
OffsetIsShipped ==
  used.rotations = 0 =>
    \A t \in Target : \A i \in 1..saved[t] :
      Arrived(t, file[i]) \/ <<"void", t, file[i].id>> \in passed

\* What lies before a saved offset has reached its target (log_shipper.py: "On
\* failure the offset is NOT advanced, so the batch retries next tick
\* (at-least-once)").  It does not hold: a file that was rotated and has grown
\* past the old offset is read from there, and a target without an address
\* takes batches as if it stored them.
LinesAreShipped ==
  \A t \in Target : \A i \in 1..saved[t] : i <= Len(file) => Arrived(t, file[i])

==============================================================================
