---------------------------- MODULE ConfigWatcher ----------------------------
(***************************************************************************)
(* ConfigWatcher of src/src/config.rs: a config behind one RwLock, the     *)
(* senders of its watch channels behind another, and a reload loop that    *)
(* loads the config every five seconds.  update() stores under the first   *)
(* lock and notifies under the second, watch() clones under the first and  *)
(* registers under the second: between the two locks anybody may run.      *)
(* A config is loaded from two files, read one after the other: the named  *)
(* one and, over it, the optional one of LIME_ENV.                         *)
(***************************************************************************)
EXTENDS Integers, SequencesExt

CONSTANTS Receivers,    \* callers of watch()
          Updaters,     \* callers of update(), one call each
          Reloader,     \* the task of start_hot_reload
          ManualConfigs,\* the configs they pass to update()
          MaxEdits      \* bound: times a file is saved

ASSUME ActorsAssumption == Reloader \notin Updaters
ASSUME EditsAssumption == MaxEdits \in Nat

\* File::with_name(path), and over it the optional file of LIME_ENV.  A file is
\* known by the number of times it was saved; 0 also is no optional file.
Layers == {"base", "env"}
Config == [Layers -> 0..MaxEdits]

ASSUME ManualAssumption == ManualConfigs \intersect Config = {}

Notifiers == Updaters \union {Reloader}

VARIABLES file,      \* per layer: what the file holds
          parses,    \* per layer: whether that parses
          good,      \* history, per layer: the contents that parsed
          config,    \* ConfigWatcher.config
          senders,   \* ConfigWatcher.watchers["global"]
          place,     \* per receiver: where watch() is
          rx,        \* per receiver: the value in its channel
          pc,        \* per notifier: where update() is
          new,       \* per notifier: its new_config
          todo       \* per notifier: the senders it has still to notify

vars == <<file, parses, good, config, senders, place, rx, pc, new, todo>>

watching == <<senders, place, rx>>
updating == <<pc, new, todo>>

First == [l \in Layers |-> 0]

Init ==
    /\ file = First
    /\ parses = [l \in Layers |-> TRUE]
    /\ good = [l \in Layers |-> {0}]
    /\ config = First
    /\ senders = <<>>
    /\ place = [r \in Receivers |-> "start"]
    /\ rx = [r \in Receivers |-> First]
    /\ pc = [n \in Notifiers |-> "idle"]
    /\ new = [n \in Notifiers |-> First]
    /\ todo = [n \in Notifiers |-> <<>>]

(***************************************************************************)
(* watch()                                                                 *)
(***************************************************************************)
\* The guard of the config is a temporary: it is dropped with the clone made.
Clone(r) ==
    /\ place[r] = "start"
    /\ rx' = [rx EXCEPT ![r] = config]
    /\ place' = [place EXCEPT ![r] = "cloned"]
    /\ UNCHANGED <<file, parses, good, config, senders, updating>>

\* The write guard on the senders excludes every update() that is notifying.
Register(r) ==
    /\ place[r] = "cloned"
    /\ \A n \in Notifiers : pc[n] # "notify"
    /\ senders' = Append(senders, r)
    /\ place' = [place EXCEPT ![r] = "watching"]
    /\ UNCHANGED <<file, parses, good, config, rx, updating>>

\* A receiver is dropped; its sender stays in the list.
DropReceiver(r) ==
    /\ place[r] = "watching"
    /\ place' = [place EXCEPT ![r] = "dropped"]
    /\ UNCHANGED <<file, parses, good, config, senders, rx, updating>>

(***************************************************************************)
(* update(), called by the application or by the reload loop               *)
(***************************************************************************)
StartUpdate(u, v) ==
    /\ pc[u] = "idle"
    /\ new' = [new EXCEPT ![u] = v]
    /\ pc' = [pc EXCEPT ![u] = "store"]
    /\ UNCHANGED <<file, parses, good, config, todo, watching>>

\* Seeded fault for EventuallyCurrent: nothing to do if nothing changed.
WorthwhileIfNew(v) == v # config

\* The reload loop updates on every tick, whatever it read.
Worthwhile(v) == TRUE

\* Seeded fault for OnlyGoodConfigs: a fallback in place of the Err branch.
ParsedAnyway(l) == TRUE

Parsed(l) == parses[l]

\* Config::from_file reads the files in this order, and returns an Err for the
\* first that does not parse, which is logged; the config stays.
ReadBase ==
    /\ pc[Reloader] = "idle"
    /\ Parsed("base")
    /\ new' = [new EXCEPT ![Reloader] = [First EXCEPT !.base = file.base]]
    /\ pc' = [pc EXCEPT ![Reloader] = "layer"]
    /\ UNCHANGED <<file, parses, good, config, todo, watching>>

ReadEnvFile ==
    /\ pc[Reloader] = "layer"
    /\ LET loaded == [new[Reloader] EXCEPT !.env = file.env]
       IN  IF Parsed("env") /\ Worthwhile(loaded)
           THEN /\ new' = [new EXCEPT ![Reloader] = loaded]
                /\ pc' = [pc EXCEPT ![Reloader] = "store"]
           ELSE /\ pc' = [pc EXCEPT ![Reloader] = "idle"]
                /\ UNCHANGED new
    /\ UNCHANGED <<file, parses, good, config, todo, watching>>

Store(n) ==
    /\ pc[n] = "store"
    /\ config' = new[n]
    /\ pc' = [pc EXCEPT ![n] = "lock"]
    /\ UNCHANGED <<file, parses, good, new, todo, watching>>

\* The application calls update() once, the loop again and again.
Return(n) == pc' = [pc EXCEPT ![n] = IF n = Reloader THEN "idle" ELSE "done"]

\* A read guard: several notifiers may hold it together.
LockSenders(n) ==
    /\ pc[n] = "lock"
    /\ todo' = [todo EXCEPT ![n] = senders]
    /\ IF senders = <<>> THEN Return(n) ELSE pc' = [pc EXCEPT ![n] = "notify"]
    /\ UNCHANGED <<file, parses, good, config, new, watching>>

\* send() fails, and is ignored, if the receiver is gone.
Send(n) ==
    /\ pc[n] = "notify"
    /\ LET r == Head(todo[n])
       IN rx' = IF place[r] = "dropped" THEN rx ELSE [rx EXCEPT ![r] = new[n]]
    /\ todo' = [todo EXCEPT ![n] = Tail(@)]
    /\ IF Len(todo[n]) = 1 THEN Return(n) ELSE UNCHANGED pc
    /\ UNCHANGED <<file, parses, good, config, new, senders, place>>

(***************************************************************************)
(* Somebody saves a file, perhaps half of it.                              *)
(***************************************************************************)
Edit(l) ==
    /\ file.base + file.env < MaxEdits
    /\ file' = [file EXCEPT ![l] = @ + 1]
    /\ \E ok \in BOOLEAN :
          /\ parses' = [parses EXCEPT ![l] = ok]
          /\ good' = IF ok THEN [good EXCEPT ![l] = @ \union {file'[l]}] ELSE good
    /\ UNCHANGED <<config, watching, updating>>

-----------------------------------------------------------------------------
Next ==
    \/ \E r \in Receivers : Clone(r) \/ Register(r) \/ DropReceiver(r)
    \/ \E u \in Updaters, v \in ManualConfigs : StartUpdate(u, v)
    \/ ReadBase \/ ReadEnvFile
    \/ \E n \in Notifiers : Store(n) \/ LockSenders(n) \/ Send(n)
    \/ \E l \in Layers : Edit(l)

Spec == Init /\ [][Next]_vars

\* The interval ticks again and again, and a call of update() goes on.
FairSpec ==
    /\ Spec
    /\ WF_vars(ReadBase) /\ WF_vars(ReadEnvFile)
    /\ \A n \in Notifiers : WF_vars(Store(n) \/ LockSenders(n) \/ Send(n))

-----------------------------------------------------------------------------
\* What "hot reload" promises: once the files are left alone and parse, the
\* config and every live receiver come to hold them and keep them, although a
\* receiver may have been registered with a clone that was stale by then, a
\* file may have been saved between the reads of the two, and concurrent
\* updates may have notified in another order than they stored.
Current == config = file /\ \A r \in Receivers : place[r] = "watching" => rx[r] = file

EventuallyCurrent == <>[]((\A l \in Layers : parses[l]) => Current)

\* A file that does not parse reaches neither the config nor any receiver,
\* however it is saved between the reload loop's ticks and reads.
Good(v) == v \in ManualConfigs \/ \A l \in Layers : v[l] \in good[l]

OnlyGoodConfigs ==
    /\ Good(config)
    /\ \A r \in Receivers : place[r] # "start" => Good(rx[r])
=============================================================================
