------------------------- MODULE ConfigWatcherProofs -------------------------
(***************************************************************************)
(* ConfigWatcher: nobody ever holds what did not parse, for any number of  *)
(* receivers, callers of update and saves of the files.                    *)
(*                                                                         *)
(* A config goes from the files through the local variables of a load and  *)
(* of update to the watcher and into the channels; the invariant says that *)
(* it is good at each of these places, and that a file that parses now is  *)
(* among the contents that ever did.                                       *)
(***************************************************************************)
EXTENDS ConfigWatcher, TLAPS

Typed ==
    /\ DOMAIN file = Layers /\ DOMAIN parses = Layers /\ DOMAIN good = Layers
    /\ DOMAIN new = Notifiers /\ DOMAIN pc = Notifiers
    /\ DOMAIN rx = Receivers /\ DOMAIN place = Receivers

FilesGood == \A l \in Layers : parses[l] => file[l] \in good[l]

\* Between the two reads the load has the first file only.
LoadGood == pc[Reloader] = "layer" => new[Reloader].base \in good["base"]
                                      /\ DOMAIN new[Reloader] = Layers

NewGood == \A n \in Notifiers : pc[n] \in {"store", "lock", "notify"} => Good(new[n])

Inv == Typed /\ FilesGood /\ LoadGood /\ NewGood /\ OnlyGoodConfigs

-----------------------------------------------------------------------------
LEMMA LayersKnown == "base" \in Layers /\ "env" \in Layers /\ Reloader \in Notifiers
  BY DEF Layers, Notifiers

LEMMA InitInv == Init => Inv
  <1> SUFFICES ASSUME Init PROVE Inv
    OBVIOUS
  <1>1. \A l \in Layers : First[l] = 0 /\ good[l] = {0} /\ file[l] = 0
    BY DEF Init, First
  <1>2. Good(config)
    BY <1>1 DEF Init, Good
  <1> QED
    BY <1>1, <1>2, LayersKnown
    DEF Init, Inv, Typed, FilesGood, LoadGood, NewGood, OnlyGoodConfigs, First

\* What an action leaves alone stays good.
LEMMA GoodStays ==
  ASSUME good' = good, NEW v
  PROVE  Good(v)' = Good(v)
  BY DEF Good

LEMMA CloneInv ==
  ASSUME Inv, NEW r \in Receivers, Clone(r)
  PROVE  Inv'
  BY DEF Clone, Inv, Typed, FilesGood, LoadGood, NewGood, OnlyGoodConfigs, Good, updating

LEMMA RegisterInv ==
  ASSUME Inv, NEW r \in Receivers, Register(r) \/ DropReceiver(r)
  PROVE  Inv'
  BY DEF Register, DropReceiver, Inv, Typed, FilesGood, LoadGood, NewGood, OnlyGoodConfigs, Good, updating

LEMMA StartUpdateInv ==
  ASSUME Inv, NEW u \in Updaters, NEW v \in ManualConfigs, StartUpdate(u, v)
  PROVE  Inv'
  <1>1. u # Reloader /\ u \in Notifiers
    BY ActorsAssumption DEF Notifiers
  <1>2. /\ new' = [new EXCEPT ![u] = v] /\ pc' = [pc EXCEPT ![u] = "store"]
        /\ UNCHANGED <<file, parses, good, config, rx, place>>
    BY DEF StartUpdate, watching
  <1>3. \A n \in Notifiers \ {u} : new'[n] = new[n] /\ pc'[n] = pc[n]
    BY <1>2 DEF Inv, Typed
  <1>4. new'[u] = v /\ Good(v)
    BY <1>1, <1>2 DEF Inv, Typed, Good
  <1>5. Typed' /\ FilesGood' /\ OnlyGoodConfigs'
    BY <1>2 DEF Inv, Typed, FilesGood, OnlyGoodConfigs, Good
  <1>6. LoadGood'
    BY <1>1, <1>2, <1>3, LayersKnown DEF Inv, LoadGood
  <1>7. NewGood'
    BY <1>2, <1>3, <1>4 DEF Inv, NewGood, Good
  <1> QED  BY <1>5, <1>6, <1>7 DEF Inv

LEMMA ReadBaseInv ==
  ASSUME Inv, ReadBase
  PROVE  Inv'
  <1>1. /\ new' = [new EXCEPT ![Reloader] = [First EXCEPT !.base = file.base]]
        /\ pc' = [pc EXCEPT ![Reloader] = "layer"] /\ parses["base"]
        /\ UNCHANGED <<file, parses, good, config, rx, place>>
    BY DEF ReadBase, Parsed, watching
  <1>2. \A n \in Notifiers \ {Reloader} : new'[n] = new[n] /\ pc'[n] = pc[n]
    BY <1>1 DEF Inv, Typed
  <1>3. new'[Reloader].base = file.base /\ DOMAIN new'[Reloader] = Layers /\ pc'[Reloader] = "layer"
    BY <1>1, LayersKnown DEF Inv, Typed, First
  <1>4. Typed' /\ FilesGood' /\ OnlyGoodConfigs'
    BY <1>1 DEF Inv, Typed, FilesGood, OnlyGoodConfigs, Good
  <1>5. LoadGood'
    BY <1>1, <1>3, LayersKnown DEF Inv, FilesGood, LoadGood
  <1>6. NewGood'
    BY <1>1, <1>2, <1>3 DEF Inv, NewGood, Good
  <1> QED  BY <1>4, <1>5, <1>6 DEF Inv

LEMMA ReadEnvFileInv ==
  ASSUME Inv, ReadEnvFile
  PROVE  Inv'
  <1> DEFINE loaded == [new[Reloader] EXCEPT !.env = file.env]
  <1>1. pc[Reloader] = "layer" /\ UNCHANGED <<file, parses, good, config, rx, place>>
    BY DEF ReadEnvFile, watching
  <1>2. Typed' /\ FilesGood' /\ OnlyGoodConfigs'
    BY <1>1 DEF Inv, Typed, FilesGood, OnlyGoodConfigs, Good, ReadEnvFile
  <1>3. CASE parses["env"] /\ Worthwhile(loaded)
    <2>1. new' = [new EXCEPT ![Reloader] = loaded] /\ pc' = [pc EXCEPT ![Reloader] = "store"]
      BY <1>3 DEF ReadEnvFile, Parsed
    <2>2. \A n \in Notifiers \ {Reloader} : new'[n] = new[n] /\ pc'[n] = pc[n]
      BY <2>1 DEF Inv, Typed
    <2>3. new'[Reloader] = loaded /\ pc'[Reloader] = "store"
      BY <2>1, LayersKnown DEF Inv, Typed
    <2>4. loaded["base"] \in good["base"] /\ loaded["env"] \in good["env"]
      BY <1>1, <1>3, LayersKnown DEF Inv, LoadGood, FilesGood
    <2>5. Good(loaded)
      BY <2>4 DEF Good, Layers
    <2>6. NewGood'
      BY <1>1, <2>2, <2>3, <2>5 DEF Inv, NewGood, Good
    <2>7. LoadGood'
      BY <2>3 DEF LoadGood
    <2> QED  BY <1>2, <2>6, <2>7 DEF Inv
  <1>4. CASE ~(parses["env"] /\ Worthwhile(loaded))
    <2>1. UNCHANGED new /\ pc' = [pc EXCEPT ![Reloader] = "idle"]
      BY <1>4 DEF ReadEnvFile, Parsed
    <2>2. pc'[Reloader] = "idle" /\ \A n \in Notifiers \ {Reloader} : pc'[n] = pc[n]
      BY <2>1, LayersKnown DEF Inv, Typed
    <2>3. NewGood' /\ LoadGood'
      BY <1>1, <2>1, <2>2 DEF Inv, NewGood, LoadGood, Good
    <2> QED  BY <1>2, <2>3 DEF Inv
  <1> QED  BY <1>3, <1>4

\* The steps of update, which pass on what they have.
LEMMA UpdateInv ==
  ASSUME Inv, NEW n \in Notifiers, Store(n) \/ LockSenders(n) \/ Send(n)
  PROVE  Inv'
  <1>1. /\ UNCHANGED <<file, parses, good, new, place>>
        /\ pc[n] \in {"store", "lock", "notify"}
        /\ \A m \in Notifiers \ {n} : pc'[m] = pc[m]
        /\ pc'[n] \in {"lock", "notify", "idle", "done"} /\ DOMAIN pc' = Notifiers
    BY DEF Store, LockSenders, Send, Return, Inv, Typed, watching
  <1>2. Good(new[n])
    BY <1>1 DEF Inv, NewGood
  <1>3. /\ config' = config \/ config' = new[n]
        /\ DOMAIN rx' = Receivers
        /\ \A q \in Receivers : rx'[q] = rx[q] \/ rx'[q] = new[n]
    BY DEF Store, LockSenders, Send, Inv, Typed, watching
  <1>4. Typed' /\ FilesGood' /\ LoadGood' /\ NewGood'
    BY <1>1, <1>2, <1>3, LayersKnown DEF Inv, Typed, FilesGood, LoadGood, NewGood, Good
  <1>5. OnlyGoodConfigs'
    BY <1>1, <1>2, <1>3 DEF Inv, OnlyGoodConfigs, Good
  <1> QED  BY <1>4, <1>5 DEF Inv

LEMMA EditInv ==
  ASSUME Inv, NEW l \in Layers, Edit(l)
  PROVE  Inv'
  <1>1. PICK ok \in BOOLEAN :
          /\ parses' = [parses EXCEPT ![l] = ok]
          /\ good' = IF ok THEN [good EXCEPT ![l] = @ \union {file'[l]}] ELSE good
    BY DEF Edit
  <1>2. file' = [file EXCEPT ![l] = @ + 1] /\ UNCHANGED <<config, rx, place, pc, new>>
    BY DEF Edit, watching, updating
  <1>3. \A k \in Layers : good[k] \subseteq good'[k]
    BY <1>1 DEF Inv, Typed
  <1>4. \A v : Good(v) => Good(v)'
    BY <1>3 DEF Good
  <1>5. Typed'
    BY <1>1, <1>2 DEF Inv, Typed
  <1>6. FilesGood'
    BY <1>1, <1>2, <1>3 DEF Inv, Typed, FilesGood
  <1>7. LoadGood' /\ NewGood'
    BY <1>2, <1>3, <1>4, LayersKnown DEF Inv, LoadGood, NewGood
  <1>8. OnlyGoodConfigs'
    BY <1>2, <1>4 DEF Inv, OnlyGoodConfigs
  <1> QED  BY <1>5, <1>6, <1>7, <1>8 DEF Inv

LEMMA NextInv == Inv /\ [Next]_vars => Inv'
  <1> SUFFICES ASSUME Inv, [Next]_vars PROVE Inv'
    OBVIOUS
  <1>1. ASSUME NEW r \in Receivers, Clone(r) \/ Register(r) \/ DropReceiver(r) PROVE Inv'
    BY <1>1, CloneInv, RegisterInv
  <1>2. ASSUME NEW u \in Updaters, NEW v \in ManualConfigs, StartUpdate(u, v) PROVE Inv'
    BY <1>2, StartUpdateInv
  <1>3. CASE ReadBase \/ ReadEnvFile
    BY <1>3, ReadBaseInv, ReadEnvFileInv
  <1>4. ASSUME NEW n \in Notifiers, Store(n) \/ LockSenders(n) \/ Send(n) PROVE Inv'
    BY <1>4, UpdateInv
  <1>5. ASSUME NEW l \in Layers, Edit(l) PROVE Inv'
    BY <1>5, EditInv
  <1>6. CASE UNCHANGED vars
    BY <1>6 DEF vars, watching, updating, Inv, Typed, FilesGood, LoadGood, NewGood, OnlyGoodConfigs, Good
  <1> QED  BY <1>1, <1>2, <1>3, <1>4, <1>5, <1>6 DEF Next

\* What does not parse reaches neither the watcher's config nor a receiver,
\* however the files are saved and update and watch are called.
THEOREM OnlyGoodConfigsCorrect == Spec => []OnlyGoodConfigs
  <1>1. Inv => OnlyGoodConfigs
    BY DEF Inv
  <1> QED  BY InitInv, NextInv, <1>1, PTL DEF Spec
=============================================================================
