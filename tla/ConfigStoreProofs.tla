-------------------------- MODULE ConfigStoreProofs --------------------------
(***************************************************************************)
(* Proofs about ConfigStore: state stays well formed; daemons that replace *)
(* one another serve under one CA, whatever dies or fails; and a daemon    *)
(* that has nothing more to do enforces what is in config.yaml, unless a   *)
(* reload outlasts the debouncing.                                         *)
(***************************************************************************)
EXTENDS ConfigStore, TLAPS

-----------------------------------------------------------------------------
(* Types.  That a reload never reads an absent file is part of the type    *)
(* argument: a process that is past NewManager has made it exist.          *)
FileInv == \A p \in Procs : stage[p] \notin {"new", "gone"} => file # Absent

ReloadType == [pc : {"idle", "swap", "install"}, val : Values, late : BOOLEAN]
UpdateType == [pc : {"idle", "saving", "rules"}, val : Values, late : BOOLEAN]
InstType == [rules : Values, live : Values]

Wellformed == TypeOK /\ FileInv

(* What a file that can be parsed gives is a configuration. *)
LEMMA ParseType ==
  ASSUME NEW f \in Values \cup {Empty}
  PROVE  Parse(f) \in Values
BY ConfigAssumption DEF Parse, Empty

(* A configuration parses to itself, the empty file to the defaults. *)
LEMMA ParseValue ==
  /\ \A f \in Values : Parse(f) = f /\ f # Empty /\ f # Garbled /\ f # Absent
  /\ Parse(Empty) = Default
BY ConfigAssumption DEF Parse, Empty, Garbled, Absent

(* A write leaves a present file and well formed watch state. *)
LEMMA WriteTypes ==
  ASSUME Wellformed, NEW w, NEW c \in Values \cup {Garbled},
         Truncates(w) \/ Writes(w, c)
  PROVE  /\ file' \in Values \cup {Empty, Garbled} /\ file' # Absent
         /\ event' \in BOOLEAN /\ blind' \in [Procs -> BOOLEAN]
<1>1. file' \in Values \cup {Empty, Garbled}
  BY DEF Truncates, Writes
<1>2. file' # Absent
  BY <1>1, ConfigAssumption DEF Absent, Empty, Garbled
<1>3. event' \in BOOLEAN /\ blind' \in [Procs -> BOOLEAN]
  BY DEF Truncates, Writes, Touched, Wellformed, TypeOK
<1> QED BY <1>1, <1>2, <1>3

(* What Build installs is a pair of parts. *)
LEMMA BuiltType == \A c \in Values : Built(c) \in InstType
BY DEF Built, InstType

LEMMA InitTypes == Init => Wellformed
<1> SUFFICES ASSUME Init PROVE Wellformed
  OBVIOUS
<1>1. TypeOK
  <2>1. stage \in [Procs -> Stages] BY DEF Init, Stages
  <2>2. reload \in [Reloaders -> ReloadType] /\ update \in UpdateType
    BY ConfigAssumption DEF Init, Idle, ReloadType, UpdateType
  <2>3. changes \in 0..MaxChanges BY ConfigAssumption DEF Init
  <2>4. inst \in [Procs -> InstType] BY BuiltType, ConfigAssumption DEF Init
  <2> QED BY <2>1, <2>2, <2>3, <2>4, ConfigAssumption
          DEF Init, TypeOK, ReloadType, UpdateType, InstType
<1>2. FileInv BY DEF Init, FileInv
<1> QED BY <1>1, <1>2 DEF Wellformed

(* The steps of a start keep the types. *)
LEMMA StartTypes ==
  ASSUME Wellformed, NEW p \in Procs, StartStep(p)
  PROVE  Wellformed'
<1> USE DEF Wellformed, FileInv
<1>0. /\ Default \in Values
      /\ \A s \in Stages : [stage EXCEPT ![p] = s] \in [Procs -> Stages]
  BY ConfigAssumption DEF TypeOK
<1>1. CASE Load(p)
  <2>1. mem' \in [Procs -> Values] BY <1>1, ParseType DEF Load, TypeOK
  <2>2. file # Absent BY <1>1, ConfigAssumption DEF Load, Absent, Empty
  <2>3. stage' \in [Procs -> Stages] BY <1>0, <1>1 DEF Load, Goto, Stages, Starting
  <2> QED BY <1>1, <2>1, <2>2, <2>3 DEF Load, TypeOK, caVars, watchVars
<1>2. CASE LoadCreates(p)
  <2>1. mem' \in [Procs -> Values] BY <1>0, <1>2 DEF LoadCreates, TypeOK
  <2>2. /\ file' \in Values \cup {Empty, Garbled} /\ file' # Absent
        /\ event' \in BOOLEAN /\ blind' \in [Procs -> BOOLEAN]
    BY <1>0, <1>2, WriteTypes DEF LoadCreates
  <2>3. stage' \in [Procs -> Stages]
    BY <1>0, <1>2 DEF LoadCreates, Goto, Stages, Starting
  <2> QED BY <1>2, <2>1, <2>2, <2>3 DEF LoadCreates, TypeOK, caVars
<1>3. CASE LoadFails(p)
  <2>1. stage' \in [Procs -> Stages] BY <1>0, <1>3 DEF LoadFails, Goto, Stages
  <2>2. \A q \in Procs : stage'[q] # "gone" => stage'[q] = stage[q]
    BY <1>3 DEF LoadFails, Goto, TypeOK
  <2> QED BY <1>3, <2>1, <2>2 DEF LoadFails, TypeOK, caVars, watchVars
<1>4. CASE Created(p)
  <2>1. /\ file' \in Values \cup {Empty, Garbled} /\ file' # Absent
        /\ event' \in BOOLEAN /\ blind' \in [Procs -> BOOLEAN]
    BY <1>0, <1>4, WriteTypes DEF Created
  <2>2. stage' \in [Procs -> Stages]
    BY <1>0, <1>4 DEF Created, Goto, Stages, Starting
  <2> QED BY <1>4, <2>1, <2>2 DEF Created, TypeOK, caVars
<1>5. CASE Migrate(p)
  <2>1. /\ file' \in Values \cup {Empty, Garbled} /\ file' # Absent
        /\ event' \in BOOLEAN /\ blind' \in [Procs -> BOOLEAN]
    BY <1>0, <1>5, WriteTypes DEF Migrate
  <2>2. stage' \in [Procs -> Stages]
    BY <1>0, <1>5 DEF Migrate, Goto, Stages, Starting
  <2> QED BY <1>5, <2>1, <2>2 DEF Migrate, TypeOK, caVars
<1>6. CASE Migrated(p)
  <2>0. mem[p] \in Values BY DEF TypeOK
  <2>1. /\ file' \in Values \cup {Empty, Garbled} /\ file' # Absent
        /\ event' \in BOOLEAN /\ blind' \in [Procs -> BOOLEAN]
    BY <2>0, <1>6, WriteTypes DEF Migrated
  <2>2. stage' \in [Procs -> Stages]
    BY <1>0, <1>6 DEF Migrated, Goto, Stages, Starting
  <2> QED BY <1>6, <2>1, <2>2 DEF Migrated, TypeOK, caVars
<1>7. CASE MigrateFails(p)
  <2>1. file # Absent BY <1>7 DEF MigrateFails
  <2>2. stage' \in [Procs -> Stages] /\ blind' \in [Procs -> BOOLEAN]
    BY <1>0, <1>7 DEF MigrateFails, Goto, Stages, Starting, TypeOK
  <2> QED BY <1>7, <2>1, <2>2 DEF MigrateFails, TypeOK, caVars, watchVars
<1>8. CASE Acquire(p)
  <2>1. file # Absent BY <1>8 DEF Acquire
  <2>2. stage' \in [Procs -> Stages]
    BY <1>0, <1>8 DEF Acquire, Goto, Stages, Starting
  <2> QED BY <1>8, <2>1, <2>2 DEF Acquire, TypeOK, caVars, watchVars
<1>9. CASE LoadCA(p)
  <2>1. file # Absent BY <1>9 DEF LoadCA
  <2>2. stage' \in [Procs -> Stages]
    BY <1>0, <1>9 DEF LoadCA, Goto, Stages, Starting
  <2>3. ca' \in [Procs -> (Procs \X Procs) \cup {NoProc}]
    BY <1>9 DEF LoadCA, TypeOK
  <2> QED BY <1>9, <2>1, <2>2, <2>3 DEF LoadCA, TypeOK, watchVars
<1>10. CASE LoadCAFails(p)
  <2>1. file # Absent BY <1>10 DEF LoadCAFails
  <2>2. stage' \in [Procs -> Stages]
    BY <1>0, <1>10 DEF LoadCAFails, Goto, Stages
  <2> QED BY <1>10, <2>1, <2>2 DEF LoadCAFails, TypeOK, caVars, watchVars
<1>11. CASE GenerateCA(p)
  <2>1. file # Absent BY <1>11 DEF GenerateCA
  <2>2. stage' \in [Procs -> Stages]
    BY <1>0, <1>11 DEF GenerateCA, Goto, Stages, Starting
  <2> QED BY <1>11, <2>1, <2>2 DEF GenerateCA, TypeOK, caVars, watchVars
<1>12. CASE WriteCert(p)
  <2>1. file # Absent BY <1>12 DEF WriteCert
  <2>2. stage' \in [Procs -> Stages]
    BY <1>0, <1>12 DEF WriteCert, Goto, Stages, Starting
  <2>3. crt' \in Procs \cup {Absent, Empty} BY <1>12 DEF WriteCert
  <2> QED BY <1>12, <2>1, <2>2, <2>3 DEF WriteCert, TypeOK, watchVars
<1>13. CASE WriteKey(p)
  <2>1. file # Absent BY <1>13 DEF WriteKey
  <2>2. stage' \in [Procs -> Stages]
    BY <1>0, <1>13 DEF WriteKey, Goto, Stages, Starting
  <2>3. key' \in Procs \cup {Absent, Empty} BY <1>13 DEF WriteKey
  <2>4. ca' \in [Procs -> (Procs \X Procs) \cup {NoProc}]
    BY <1>13 DEF WriteKey, TypeOK
  <2> QED BY <1>13, <2>1, <2>2, <2>3, <2>4 DEF WriteKey, TypeOK, watchVars
<1>14. CASE Serve(p)
  <2>1. file # Absent BY <1>14 DEF Serve
  <2>2. stage' \in [Procs -> Stages]
    BY <1>0, <1>14 DEF Serve, Goto, Stages, Starting, TypeOK
  <2>3. inst' \in [Procs -> InstType]
    BY <1>14, BuiltType DEF Serve, TypeOK, InstType
  <2> QED BY <1>14, <2>1, <2>2, <2>3 DEF Serve, TypeOK, caVars, watchVars, InstType
<1>15. CASE StartWatcher(p)
  <2>1. file # Absent BY <1>15 DEF StartWatcher
  <2>2. stage' \in [Procs -> Stages]
    BY <1>0, <1>15 DEF StartWatcher, Goto, Stages
  <2> QED BY <1>15, <2>1, <2>2 DEF StartWatcher, TypeOK, caVars
<1> QED BY <1>1, <1>2, <1>3, <1>4, <1>5, <1>6, <1>7, <1>8, <1>9, <1>10, <1>11, <1>12,
           <1>13, <1>14, <1>15 DEF StartStep

(* The reload's read keeps the types: its file is not absent. *)
LEMMA ReadsTypes ==
  ASSUME Wellformed, NEW p \in Procs, NEW r \in Reloaders, Up(p), Reads(p, r)
  PROVE  reload' \in [Reloaders -> ReloadType] /\ blind' \in [Procs -> BOOLEAN]
<1> USE DEF Wellformed, FileInv, TypeOK
<1>1. CASE file = Garbled
  BY <1>1 DEF Reads, ReloadType
<1>2. CASE file # Garbled
  <2>1. Parse(file) \in Values BY <1>2, ParseType DEF Up
  <2>2. [pc |-> "swap", val |-> Parse(file), late |-> FALSE] \in ReloadType
    BY <2>1 DEF ReloadType
  <2>3. reload \in [Reloaders -> ReloadType] BY DEF ReloadType
  <2>4. reload' \in [Reloaders -> ReloadType] BY <1>2, <2>2, <2>3 DEF Reads
  <2>5. blind' \in [Procs -> BOOLEAN] BY <1>2 DEF Reads
  <2> QED BY <2>4, <2>5
<1> QED BY <1>1, <1>2

LEMMA LateTypes ==
  /\ \A x \in ReloadType : Late(x) \in ReloadType
  /\ \A x \in UpdateType : Late(x) \in UpdateType
BY DEF Late, ReloadType, UpdateType

(* A daemon that ends, its goroutines and the editor keep the types. *)
LEMMA RunTypes ==
  ASSUME Wellformed, NEW p \in Procs,
         \/ Ends(p) \/ Debounce(p) \/ Sighup(p) \/ UpdateStep(p)
         \/ \E r \in Timers : Fire(p, r)
         \/ \E r \in Reloaders : ReloadStep(p, r)
         \/ \E c \in Values : UpdateBegin(p, c) \/ UpdateRefused(p, c)
  PROVE  Wellformed'
<1> USE DEF Wellformed, FileInv
<1>0. /\ Idle \in ReloadType /\ Idle \in UpdateType
      /\ reload \in [Reloaders -> ReloadType] /\ update \in UpdateType
  BY ConfigAssumption DEF Idle, ReloadType, UpdateType, TypeOK
<1>1. CASE Ends(p)
  <2>1. stage' \in [Procs -> Stages] BY <1>1 DEF Ends, Goto, Stages, TypeOK
  <2>2. file # Absent BY <1>1 DEF Ends
  <2>a. /\ mem' \in [Procs -> Values] /\ inst' \in [Procs -> InstType]
        /\ blind' \in [Procs -> BOOLEAN]
    BY <1>1, BuiltType, ConfigAssumption DEF Ends, TypeOK, InstType
  <2>3. CASE lock = p
    <3>1. reload' \in [Reloaders -> ReloadType] /\ update' \in UpdateType
      BY <1>0, <1>1, <2>3 DEF Ends
    <3> QED BY <1>1, <2>1, <2>2, <2>a, <2>3, <3>1
            DEF Ends, TypeOK, caVars, ReloadType, UpdateType, InstType
  <2>4. CASE lock # p
    BY <1>1, <2>1, <2>2, <2>a, <2>4 DEF Ends, TypeOK, caVars, watchVars, InstType
  <2> QED BY <2>3, <2>4
<1>2. CASE Debounce(p)
  <2>1. reload' \in [Reloaders -> ReloadType] /\ update' \in UpdateType
    BY <1>0, <1>2, LateTypes DEF Debounce
  <2> QED BY <1>2, <2>1 DEF Debounce, TypeOK, caVars, ReloadType, UpdateType
<1>3. CASE Sighup(p)
  <2>1. reload' \in [Reloaders -> ReloadType] /\ blind' \in [Procs -> BOOLEAN]
    BY <1>3, ReadsTypes DEF Sighup, Reloaders
  <2>2. changes' \in 0..MaxChanges BY <1>3, ConfigAssumption DEF Sighup, TypeOK
  <2>3. UNCHANGED <<stage, lock, file, caVars, mem, inst, watching, event, update, editor, timer>>
    BY <1>3 DEF Sighup, Reads
  <2>4. FileInv' BY <2>3 DEF FileInv
  <2>5. TypeOK' BY <2>1, <2>2, <2>3 DEF TypeOK, caVars, ReloadType
  <2> QED BY <2>4, <2>5
<1>4. CASE \E r \in Timers : Fire(p, r)
  <2> PICK r \in Timers : Fire(p, r) BY <1>4
  <2>1. reload' \in [Reloaders -> ReloadType] /\ blind' \in [Procs -> BOOLEAN]
    BY ReadsTypes DEF Fire, Reloaders
  <2>2. /\ UNCHANGED <<stage, lock, file, caVars, mem, inst, watching, event, update, editor>>
        /\ UNCHANGED changes /\ timer' = FALSE
    BY DEF Fire, Reads
  <2>3. FileInv' BY <2>2 DEF FileInv
  <2>4. TypeOK' BY <2>1, <2>2, ZenonT(30) DEF TypeOK, caVars, ReloadType
  <2> QED BY <2>3, <2>4
<1>5. CASE \E r \in Reloaders : ReloadStep(p, r)
  <2> PICK r \in Reloaders : ReloadStep(p, r) BY <1>5
  <2>0. reload[r].val \in Values /\ mem[p] \in Values
    BY <1>0 DEF ReloadType, TypeOK
  <2>1. CASE Swap(p, r)
    <3>1. [reload[r] EXCEPT !.pc = "install"] \in ReloadType
      BY <1>0 DEF ReloadType
    <3>2. reload' \in [Reloaders -> ReloadType] BY <1>0, <2>1, <3>1 DEF Swap
    <3>3. mem' \in [Procs -> Values] BY <2>0, <2>1 DEF Swap, TypeOK
    <3> QED BY <2>1, <3>2, <3>3 DEF Swap, TypeOK, caVars, ReloadType
  <2>2. CASE Install(p, r)
    <3>1. reload' \in [Reloaders -> ReloadType] BY <1>0, <2>2 DEF Install
    <3>2. inst' \in [Procs -> InstType] BY <2>0, <2>2 DEF Install, TypeOK, InstType
    <3> QED BY <2>2, <3>1, <3>2 DEF Install, TypeOK, caVars, ReloadType, InstType
  <2> QED BY <2>1, <2>2 DEF ReloadStep
<1>10. CASE \E c \in Values : UpdateRefused(p, c)
  <2> PICK c \in Values : UpdateRefused(p, c) BY <1>10
  <2>1. mem' \in [Procs -> Values] BY DEF UpdateRefused, TypeOK
  <2>2. blind' \in [Procs -> BOOLEAN] BY DEF UpdateRefused, TypeOK
  <2>3. changes' \in 0..MaxChanges BY ConfigAssumption DEF UpdateRefused, TypeOK
  <2> QED BY <2>1, <2>2, <2>3 DEF UpdateRefused, TypeOK, caVars, watchVars
<1>6. CASE \E c \in Values : UpdateBegin(p, c)
  <2> PICK c \in Values : UpdateBegin(p, c) BY <1>6
  <2>1. /\ file' \in Values \cup {Empty, Garbled} /\ file' # Absent
        /\ event' \in BOOLEAN /\ blind' \in [Procs -> BOOLEAN]
    BY WriteTypes DEF UpdateBegin
  <2>2. mem' \in [Procs -> Values] BY DEF UpdateBegin, TypeOK
  <2>3. update' \in UpdateType BY DEF UpdateBegin, UpdateType
  <2>4. changes' \in 0..MaxChanges BY ConfigAssumption DEF UpdateBegin, TypeOK
  <2> QED BY <2>1, <2>2, <2>3, <2>4 DEF UpdateBegin, TypeOK, caVars, UpdateType
<1>7. CASE UpdateEnd(p)
  <2>0. update.val \in Values BY <1>0 DEF UpdateType
  <2>1. /\ file' \in Values \cup {Empty, Garbled} /\ file' # Absent
        /\ event' \in BOOLEAN /\ blind' \in [Procs -> BOOLEAN]
    BY <1>7, <2>0, WriteTypes DEF UpdateEnd
  <2>2. update' \in UpdateType BY <1>0, <1>7 DEF UpdateEnd, UpdateType
  <2> QED BY <1>7, <2>1, <2>2 DEF UpdateEnd, TypeOK, caVars, UpdateType
<1>8. CASE UpdateFails(p)
  BY <1>0, <1>8 DEF UpdateFails, TypeOK, caVars, UpdateType
<1>9. CASE UpdateInstall(p)
  <2>1. inst' \in [Procs -> InstType] BY <1>9 DEF UpdateInstall, TypeOK, InstType
  <2> QED BY <1>0, <1>9, <2>1 DEF UpdateInstall, TypeOK, caVars, UpdateType, InstType
<1> QED BY <1>1, <1>2, <1>3, <1>4, <1>5, <1>6, <1>7, <1>8, <1>9, <1>10 DEF UpdateStep

LEMMA EditTypes ==
  ASSUME Wellformed,
         \/ EditBegin
         \/ \E c \in Values \cup {Garbled} : EditEnd(c)
         \/ \E c \in Values : EditReplace(c)
  PROVE  Wellformed'
<1> USE DEF Wellformed, FileInv
<1>1. CASE EditBegin
  <2>1. /\ file' \in Values \cup {Empty, Garbled} /\ file' # Absent
        /\ event' \in BOOLEAN /\ blind' \in [Procs -> BOOLEAN]
    BY <1>1, WriteTypes DEF EditBegin
  <2>2. changes' \in 0..MaxChanges BY <1>1, ConfigAssumption DEF EditBegin, TypeOK
  <2> QED BY <1>1, <2>1, <2>2 DEF EditBegin, TypeOK, caVars
<1>2. CASE \E c \in Values \cup {Garbled} : EditEnd(c)
  <2> PICK c \in Values \cup {Garbled} : EditEnd(c) BY <1>2
  <2>1. /\ file' \in Values \cup {Empty, Garbled} /\ file' # Absent
        /\ event' \in BOOLEAN /\ blind' \in [Procs -> BOOLEAN]
    BY WriteTypes DEF EditEnd
  <2> QED BY <2>1 DEF EditEnd, TypeOK, caVars
<1>3. CASE \E c \in Values : EditReplace(c)
  <2> PICK c \in Values : EditReplace(c) BY <1>3
  <2>1. c # Absent BY ParseValue
  <2>2. changes' \in 0..MaxChanges BY ConfigAssumption DEF EditReplace, TypeOK
  <2>3. blind' \in [Procs -> BOOLEAN] BY DEF EditReplace, TypeOK
  <2> QED BY <2>1, <2>2, <2>3 DEF EditReplace, TypeOK, caVars
<1> QED BY <1>1, <1>2, <1>3

LEMMA NextTypes == Wellformed /\ [Next]_vars => Wellformed'
<1> SUFFICES ASSUME Wellformed, [Next]_vars PROVE Wellformed'
  OBVIOUS
<1>1. CASE Next
  BY <1>1, StartTypes, RunTypes, EditTypes DEF Next
<1>2. CASE UNCHANGED vars
  BY <1>2 DEF Wellformed, TypeOK, FileInv, vars, caVars, watchVars
<1> QED BY <1>1, <1>2

(* The files, goroutines and stages of ConfigStore stay well formed under  *)
(* every fault: no reload runs into a missing file, and no process that    *)
(* NewManager let through finds config.yaml gone.                          *)
THEOREM StoreTypes == Spec => []TypeOK
<1>1. Spec => []Wellformed BY InitTypes, NextTypes, PTL DEF Spec
<1>2. Wellformed => TypeOK BY DEF Wellformed
<1> QED BY <1>1, <1>2, PTL

-----------------------------------------------------------------------------
(* The CA.  Only the holder of the lock is past Acquire, so only one       *)
(* process at a time writes the two files.  The key is written last:       *)
(* complete, it goes with the certificate that is there, and neither is    *)
(* ever written again.                                                     *)
AfterLock == {"ca", "generate", "cert", "certified", "key", "build", "api", "up"}

HolderInv == \A p \in Procs : stage[p] \in AfterLock => lock = p

CaInv ==
  /\ crt = Absent => key = Absent
  /\ key \in Procs => crt = key
  /\ \A p \in Procs :
       /\ ca[p] # NoProc => key \in Procs /\ ca[p] = <<crt, key>>
       /\ stage[p] = "generate" => crt = Absent
       /\ stage[p] = "cert" => crt = Empty /\ key = Absent
       /\ stage[p] = "certified" => crt = p /\ key = Absent
       /\ stage[p] = "key" => crt = p /\ key = Empty

(* Steps after the start neither touch the CA nor move a process on. *)
LEMMA LaterSteps ==
  ASSUME [Next]_vars, \A p \in Procs : ~StartStep(p) /\ ~Ends(p)
  PROVE  UNCHANGED <<stage, lock, caVars>>
<1>1. CASE UNCHANGED vars BY <1>1 DEF vars
<1>2. ASSUME NEW p \in Procs,
             \/ Debounce(p) \/ Sighup(p) \/ UpdateStep(p)
             \/ \E r \in Timers : Fire(p, r)
             \/ \E r \in Reloaders : ReloadStep(p, r)
             \/ \E c \in Values : UpdateBegin(p, c) \/ UpdateRefused(p, c)
      PROVE  UNCHANGED <<stage, lock, caVars>>
  BY <1>2 DEF Debounce, Sighup, UpdateStep, UpdateEnd, UpdateFails, UpdateInstall, Fire,
              ReloadStep, Swap, Install, UpdateBegin, UpdateRefused, Reads
<1>3. ASSUME \/ EditBegin
             \/ \E c \in Values \cup {Garbled} : EditEnd(c)
             \/ \E c \in Values : EditReplace(c)
      PROVE  UNCHANGED <<stage, lock, caVars>>
  BY <1>3 DEF EditBegin, EditEnd, EditReplace
<1> QED BY <1>1, <1>2, <1>3 DEF Next

LEMMA HolderStep ==
  ASSUME TypeOK, HolderInv, [Next]_vars
  PROVE  HolderInv'
<1>1. ASSUME NEW p \in Procs, StartStep(p) PROVE HolderInv'
  <2>1. CASE \/ Load(p) \/ LoadCreates(p) \/ LoadFails(p) \/ Created(p)
             \/ Migrate(p) \/ Migrated(p) \/ MigrateFails(p)
    BY <2>1 DEF Load, LoadCreates, LoadFails, Created, Migrate, Migrated, MigrateFails,
                Goto, TypeOK, HolderInv, AfterLock
  <2>2. CASE Acquire(p)
    BY <2>2, ConfigAssumption DEF Acquire, Goto, TypeOK, HolderInv, AfterLock
  <2>3. CASE LoadCAFails(p)
    BY <2>3 DEF LoadCAFails, Goto, TypeOK, HolderInv, AfterLock
  <2>4. CASE \/ LoadCA(p) \/ GenerateCA(p) \/ WriteCert(p) \/ WriteKey(p)
             \/ Serve(p) \/ StartWatcher(p)
    BY <2>4 DEF LoadCA, GenerateCA, WriteCert, WriteKey, Serve, StartWatcher,
                Goto, TypeOK, HolderInv, AfterLock
  <2> QED BY <1>1, <2>1, <2>2, <2>3, <2>4 DEF StartStep
<1>2. ASSUME NEW p \in Procs, Ends(p) PROVE HolderInv'
  BY <1>2 DEF Ends, Goto, TypeOK, HolderInv, AfterLock
<1>3. CASE \A p \in Procs : ~StartStep(p) /\ ~Ends(p)
  BY <1>3, LaterSteps DEF HolderInv
<1> QED BY <1>1, <1>2, <1>3

LEMMA CaStep ==
  ASSUME TypeOK, HolderInv, CaInv, [Next]_vars
  PROVE  CaInv'
<1>0. Procs \cap {Absent, Empty} = {} /\ Absent # Empty
  BY ConfigAssumption DEF Absent, Empty
<1>1. ASSUME NEW p \in Procs, StartStep(p) PROVE CaInv'
  <2>1. CASE \/ Load(p) \/ LoadCreates(p) \/ LoadFails(p) \/ Created(p)
             \/ Migrate(p) \/ Migrated(p) \/ MigrateFails(p) \/ Acquire(p)
    BY <2>1 DEF Load, LoadCreates, LoadFails, Created, Migrate, Migrated, MigrateFails,
                Acquire, Goto, TypeOK, CaInv, caVars
  <2>2. CASE LoadCAFails(p) \/ GenerateCA(p) \/ Serve(p) \/ StartWatcher(p)
    BY <2>2 DEF LoadCAFails, GenerateCA, Serve, StartWatcher, Goto, TypeOK, CaInv, caVars
  <2>3. CASE LoadCA(p)
    BY <2>3 DEF LoadCA, Goto, TypeOK, CaInv
  <2>4. CASE WriteCert(p)
    <3>1. \A q \in Procs : q # p => stage[q] \notin AfterLock
      BY <2>4 DEF WriteCert, HolderInv, AfterLock
    <3>2. key = Absent BY <2>4 DEF WriteCert, CaInv
    <3>3. \A q \in Procs : ca[q] = NoProc BY <1>0, <3>2 DEF CaInv
    <3> QED BY <1>0, <2>4, <3>1, <3>2, <3>3 DEF WriteCert, Goto, TypeOK, CaInv, AfterLock
  <2>5. CASE WriteKey(p)
    <3>1. \A q \in Procs : q # p => stage[q] \notin AfterLock
      BY <2>5 DEF WriteKey, HolderInv, AfterLock
    <3>2. key \in {Absent, Empty} /\ crt = p BY <2>5 DEF WriteKey, CaInv
    <3>3. \A q \in Procs : ca[q] = NoProc BY <1>0, <3>2 DEF CaInv
    <3> QED BY <1>0, <2>5, <3>1, <3>2, <3>3 DEF WriteKey, Goto, TypeOK, CaInv, AfterLock
  <2> QED BY <1>1, <2>1, <2>2, <2>3, <2>4, <2>5 DEF StartStep
<1>2. ASSUME NEW p \in Procs, Ends(p) PROVE CaInv'
  BY <1>2 DEF Ends, Goto, TypeOK, CaInv, caVars
<1>3. CASE \A p \in Procs : ~StartStep(p) /\ ~Ends(p)
  BY <1>3, LaterSteps DEF CaInv, caVars
<1> QED BY <1>1, <1>2, <1>3

(* All daemons that ever serve do so under one CA, with the key that goes  *)
(* with its certificate: for any number of overlapping starts, and though  *)
(* a process may die between or within the writes of ca.crt and ca.key.    *)
THEOREM OneCaHolds == Spec => []OneCa
<1>1. Init => HolderInv /\ CaInv
  BY ConfigAssumption DEF Init, HolderInv, AfterLock, CaInv, Absent
<1>2. Wellformed /\ HolderInv /\ CaInv /\ [Next]_vars => (HolderInv /\ CaInv)'
  BY HolderStep, CaStep DEF Wellformed
<1>3. HolderInv /\ CaInv => OneCa
  BY DEF CaInv, OneCa
<1> QED BY <1>1, <1>2, <1>3, InitTypes, NextTypes, PTL DEF Spec

-----------------------------------------------------------------------------
(* From the file to the components.  A process that is starting and has    *)
(* missed no write has read, or is writing, what the file holds.  A reload *)
(* that runs has read the file as it is, or an event or an armed timer     *)
(* will have it read again.  And a daemon that is up and has neither       *)
(* pending enforces the file, but for what reloads still have in hand; its *)
(* memory agrees with the file as long as somebody is about to install it. *)
StartInv ==
  \A p \in Procs : ~blind[p] =>
    /\ stage[p] = "create" => file = Empty /\ mem[p] = Default
    /\ stage[p] = "rewrite" => file = Empty
    /\ stage[p] \in Starting \ {"create", "rewrite", "api"} => mem[p] = Parse(file)
    /\ stage[p] = "api" => inst[p] = Built(Parse(file)) /\ update.pc = "idle"

Busy(r) == reload[r].pc # "idle"

ReloadInv ==
  \A r \in Reloaders :
    /\ reload[r].late => timer
    /\ Busy(r) /\ ~reload[r].late /\ ~event /\ watching => reload[r].val = Parse(file)
    /\ Busy(r) => \E p \in Procs : Up(p)

UpdateInv ==
  update.pc # "idle" => \E p \in Procs : lock = p /\ stage[p] \in {"api", "up"}

RunInv ==
  \A p \in Procs : Up(p) /\ ~blind[p] =>
    /\ watching
    /\ ~event /\ ~timer /\ file # Garbled =>
         /\ update.pc = "rules" \/ (\E r \in Reloaders : reload[r].pc = "install")
              => mem[p] = Parse(file) \/ \E r \in Reloaders : reload[r].pc = "swap"
         /\ inst[p] = Built(Parse(file)) \/ \E r \in Reloaders : Busy(r)

SyncInv == StartInv /\ ReloadInv /\ UpdateInv /\ RunInv

(* StartInv of one process. *)
Started(p) ==
  ~blind[p] =>
    /\ stage[p] = "create" => file = Empty /\ mem[p] = Default
    /\ stage[p] = "rewrite" => file = Empty
    /\ stage[p] \in Starting \ {"create", "rewrite", "api"} => mem[p] = Parse(file)
    /\ stage[p] = "api" => inst[p] = Built(Parse(file)) /\ update.pc = "idle"

LEMMA StartedAll == StartInv <=> \A p \in Procs : Started(p)
BY DEF StartInv, Started

(* A write leaves an event to whoever watches and blinds whoever does not: *)
(* everything is then in hand but for the writer's own start.              *)
LEMMA TouchedKeeps ==
  ASSUME SyncInv, TypeOK, NEW w, Touched(w),
         w \in Procs => stage[w] # "up" /\ stage'[w] # "up",
         \A q \in Procs : q # w => stage'[q] = stage[q],
         UNCHANGED <<lock, watching, timer, reload>>
  PROVE  ReloadInv' /\ RunInv' /\ \A q \in Procs : q # w => Started(q)'
<1>1. ReloadInv'
  BY DEF SyncInv, ReloadInv, Touched, Up, Busy
<1>2. RunInv'
  BY DEF RunInv, Touched, Up, TypeOK
<1>3. ASSUME NEW q \in Procs, q # w PROVE Started(q)'
  BY <1>3 DEF Started, Touched, TypeOK, Starting
<1> QED BY <1>1, <1>2, <1>3

(* A step of a start that writes nothing disturbs no one else. *)
LEMMA QuietKeeps ==
  ASSUME SyncInv, TypeOK, NEW p \in Procs,
         stage[p] # "up" /\ stage'[p] # "up",
         \A q \in Procs : q # p =>
            /\ stage'[q] = stage[q] /\ blind'[q] = blind[q]
            /\ mem'[q] = mem[q] /\ inst'[q] = inst[q]
            /\ lock' = q <=> lock = q,
         UNCHANGED <<file, watching, event, timer, reload, update>>
  PROVE  ReloadInv' /\ RunInv' /\ \A q \in Procs : q # p => Started(q)'
<1>1. ReloadInv'
  BY DEF SyncInv, ReloadInv, Up, Busy, Parse
<1>2. RunInv'
  BY DEF SyncInv, RunInv, Up, Busy, Parse
<1>3. ASSUME NEW q \in Procs, q # p PROVE Started(q)'
  BY <1>3 DEF SyncInv, StartInv, Started, Parse
<1> QED BY <1>1, <1>2, <1>3

(* Steps of a start that write config.yaml. *)
LEMMA StartWriteSync ==
  ASSUME SyncInv, TypeOK, NEW p \in Procs,
         LoadCreates(p) \/ Created(p) \/ Migrate(p) \/ Migrated(p)
  PROVE  SyncInv'
<1>1. ReloadInv' /\ RunInv' /\ \A q \in Procs : q # p => Started(q)'
  <2>1. Touched(p) /\ UNCHANGED <<lock, watching, timer, reload>>
    BY DEF LoadCreates, Created, Migrate, Migrated, Truncates, Writes
  <2>2. /\ stage[p] # "up" /\ stage'[p] # "up"
        /\ \A q \in Procs : q # p => stage'[q] = stage[q]
    BY DEF LoadCreates, Created, Migrate, Migrated, Goto, TypeOK
  <2> QED BY <2>1, <2>2, TouchedKeeps
<1>2. blind'[p] = blind[p]
  BY DEF LoadCreates, Created, Migrate, Migrated, Truncates, Writes, Touched, TypeOK
<1>3. Started(p)'
  <2>1. CASE LoadCreates(p)
    BY <2>1 DEF LoadCreates, Goto, Truncates, Started, TypeOK
  <2>2. CASE Created(p)
    <3>1. ~blind[p] => file' = Default /\ mem[p] = Default
      BY <2>2 DEF Created, Writes, SyncInv, StartInv
    <3>2. Parse(Default) = Default BY ParseValue, ConfigAssumption
    <3>3. stage'[p] = "loaded" /\ mem' = mem BY <2>2 DEF Created, Goto, TypeOK
    <3> QED BY <1>2, <3>1, <3>2, <3>3 DEF Started, Parse
  <2>3. CASE Migrate(p)
    BY <2>3 DEF Migrate, Goto, Truncates, Started, TypeOK
  <2>4. CASE Migrated(p)
    <3>1. ~blind[p] => file' = mem[p]
      BY <2>4 DEF Migrated, Writes, SyncInv, StartInv
    <3>2. Parse(mem[p]) = mem[p] BY ParseValue DEF TypeOK
    <3>3. stage'[p] = "waiting" /\ mem' = mem BY <2>4 DEF Migrated, Goto, TypeOK
    <3> QED BY <1>2, <3>1, <3>2, <3>3 DEF Started, Parse
  <2> QED BY <2>1, <2>2, <2>3, <2>4
<1>4. UpdateInv'
  <2>1. UNCHANGED <<lock, update>> /\ stage[p] \notin {"api", "up"}
    BY DEF LoadCreates, Created, Migrate, Migrated
  <2>2. \A q \in Procs : q # p => stage'[q] = stage[q]
    BY DEF LoadCreates, Created, Migrate, Migrated, Goto, TypeOK
  <2> QED BY <2>1, <2>2 DEF SyncInv, UpdateInv
<1> QED BY <1>1, <1>3, <1>4, StartedAll DEF SyncInv, StartInv, Started

(* Steps of a start that leave config.yaml alone. *)
LEMMA StartQuietSync ==
  ASSUME SyncInv, TypeOK, HolderInv, NEW p \in Procs,
         \/ Load(p) \/ LoadFails(p) \/ MigrateFails(p) \/ Acquire(p) \/ LoadCA(p)
         \/ LoadCAFails(p) \/ GenerateCA(p) \/ WriteCert(p) \/ WriteKey(p) \/ Serve(p)
  PROVE  SyncInv'
<1>1. ReloadInv' /\ RunInv' /\ \A q \in Procs : q # p => Started(q)'
  <2>1. UNCHANGED <<file, watching, event, timer, reload, update>>
    BY DEF Load, LoadFails, MigrateFails, Acquire, LoadCA, LoadCAFails, GenerateCA,
           WriteCert, WriteKey, Serve, watchVars
  <2>2. /\ stage[p] # "up" /\ stage'[p] # "up"
        /\ \A q \in Procs : q # p =>
             /\ stage'[q] = stage[q] /\ blind'[q] = blind[q]
             /\ mem'[q] = mem[q] /\ inst'[q] = inst[q]
    BY DEF Load, LoadFails, MigrateFails, Acquire, LoadCA, LoadCAFails, GenerateCA,
           WriteCert, WriteKey, Serve, Goto, TypeOK
  <2>3. \A q \in Procs : q # p => (lock' = q <=> lock = q)
    <3>1. CASE Acquire(p) BY <3>1, ConfigAssumption DEF Acquire
    <3>2. CASE LoadCAFails(p)
      BY <3>2, ConfigAssumption DEF LoadCAFails, HolderInv, AfterLock
    <3> QED BY <3>1, <3>2 DEF Load, LoadFails, MigrateFails, LoadCA, GenerateCA,
                               WriteCert, WriteKey, Serve
  <2> QED BY <2>1, <2>2, <2>3, QuietKeeps
<1>2. Started(p)'
  <2>0. Started(p) BY StartedAll DEF SyncInv
  <2>1. CASE Load(p)
    BY <2>1 DEF Load, Goto, Started, Parse, Starting, TypeOK
  <2>2. CASE LoadFails(p) \/ LoadCAFails(p)
    BY <2>2 DEF LoadFails, LoadCAFails, Goto, Started, Starting, TypeOK
  <2>3. CASE MigrateFails(p)
    BY <2>3 DEF MigrateFails, Started, TypeOK
  <2>4. CASE Acquire(p) \/ LoadCA(p) \/ GenerateCA(p) \/ WriteCert(p) \/ WriteKey(p)
    BY <2>0, <2>4 DEF Acquire, LoadCA, GenerateCA, WriteCert, WriteKey, Goto, Started,
                      Parse, Starting, TypeOK
  <2>5. CASE Serve(p)
    <3>1. update.pc = "idle"
      BY <2>5 DEF Serve, SyncInv, UpdateInv, HolderInv, AfterLock
    <3> QED BY <2>0, <2>5, <3>1 DEF Serve, Goto, Started, Parse, Starting, TypeOK, watchVars
  <2> QED BY <2>1, <2>2, <2>3, <2>4, <2>5
<1>3. UpdateInv'
  <2> SUFFICES ASSUME update'.pc # "idle"
               PROVE  \E q \in Procs : lock' = q /\ stage'[q] \in {"api", "up"}
    BY DEF UpdateInv
  <2>1. update' = update /\ stage[p] \notin {"api", "up"}
    BY DEF Load, LoadFails, MigrateFails, Acquire, LoadCA, LoadCAFails, GenerateCA,
           WriteCert, WriteKey, Serve, watchVars
  <2>2. PICK q \in Procs : lock = q /\ stage[q] \in {"api", "up"}
    BY <2>1 DEF SyncInv, UpdateInv
  <2>3. stage'[q] = stage[q]
    BY <2>1, <2>2 DEF Load, LoadFails, MigrateFails, Acquire, LoadCA, LoadCAFails, GenerateCA,
           WriteCert, WriteKey, Serve, Goto, TypeOK
  <2>4. lock' = lock
    <3>1. ~Acquire(p) BY <2>2, ConfigAssumption DEF Acquire
    <3>2. ~LoadCAFails(p) BY <2>1, <2>2 DEF LoadCAFails, HolderInv, AfterLock
    <3> QED BY <3>1, <3>2 DEF Load, LoadFails, MigrateFails, LoadCA, GenerateCA,
                              WriteCert, WriteKey, Serve
  <2> QED BY <2>2, <2>3, <2>4
<1> QED BY <1>1, <1>2, <1>3, StartedAll DEF SyncInv, StartInv, Started

(* The watcher starts over a daemon that has seen every write. *)
LEMMA StartWatcherSync ==
  ASSUME SyncInv, TypeOK, HolderInv, NEW p \in Procs, StartWatcher(p)
  PROVE  SyncInv'
<1>1. lock = p /\ \A q \in Procs : ~Up(q)
  BY DEF StartWatcher, HolderInv, AfterLock, Up
<1>2. \A r \in Reloaders : ~Busy(r)
  BY <1>1 DEF SyncInv, ReloadInv
<1>3. ReloadInv'
  BY <1>2 DEF StartWatcher, SyncInv, ReloadInv, Busy
<1>4. StartInv'
  BY DEF StartWatcher, Goto, SyncInv, StartInv, Starting, Parse, TypeOK
<1>5. RunInv'
  <2> SUFFICES ASSUME NEW q \in Procs, Up(q)', ~blind[q]
               PROVE  q = p /\ inst[p] = Built(Parse(file)) /\ update.pc = "idle"
    BY <1>2 DEF StartWatcher, RunInv, Parse, Built, Busy
  <2>1. q = p BY <1>1 DEF Up, StartWatcher
  <2> QED BY <2>1 DEF StartWatcher, SyncInv, StartInv, Starting
<1>6. UpdateInv'
  BY <1>1 DEF StartWatcher, Goto, UpdateInv, TypeOK
<1> QED BY <1>3, <1>4, <1>5, <1>6 DEF SyncInv

LEMMA EndsSync ==
  ASSUME SyncInv, TypeOK, HolderInv, NEW p \in Procs, Ends(p)
  PROVE  SyncInv'
<1>1. stage'[p] = "gone" /\ \A q \in Procs : q # p => stage'[q] = stage[q]
  BY DEF Ends, Goto, TypeOK
<1>2. CASE lock = p
  <2>1. lock' = NoProc /\ \A r \in Reloaders : reload'[r] = Idle
    BY <1>2 DEF Ends
  <2>2. RunInv' BY <2>1, ConfigAssumption DEF RunInv, Up
  <2>3. ReloadInv' BY <2>1 DEF ReloadInv, Busy, Idle
  <2>4. StartInv'
    <3> SUFFICES ASSUME NEW q \in Procs PROVE Started(q)'
      BY StartedAll DEF StartInv, Started
    <3>1. CASE q = p BY <1>1, <3>1 DEF Started, Starting
    <3>2. CASE q # p
      <4>1. /\ mem'[q] = mem[q] /\ inst'[q] = inst[q] /\ blind'[q] = blind[q]
            /\ file' = file /\ update'.pc = "idle"
        BY <1>2, <3>2 DEF Ends, Idle, TypeOK
      <4> QED BY <1>1, <3>2, <4>1 DEF Started, SyncInv, StartInv, Parse
    <3> QED BY <3>1, <3>2
  <2>5. UpdateInv' BY <1>2 DEF Ends, UpdateInv, Idle
  <2> QED BY <2>2, <2>3, <2>4, <2>5 DEF SyncInv
<1>3. CASE lock # p
  <2>1. stage[p] # "up" BY <1>3 DEF HolderInv, AfterLock
  <2>2. /\ UNCHANGED <<lock, file, watching, event, timer, reload, update>>
        /\ \A q \in Procs : q # p =>
             mem'[q] = mem[q] /\ inst'[q] = inst[q] /\ blind'[q] = blind[q]
    BY <1>3 DEF Ends, watchVars, TypeOK
  <2>3. ReloadInv' /\ RunInv' /\ \A q \in Procs : q # p => Started(q)'
    BY <1>1, <2>1, <2>2, QuietKeeps
  <2>4. Started(p)' BY <1>1 DEF Started, Starting
  <2>5. UpdateInv' BY <1>1, <1>3, <2>2 DEF SyncInv, UpdateInv
  <2> QED BY <2>3, <2>4, <2>5, StartedAll DEF SyncInv, StartInv, Started
<1> QED BY <1>2, <1>3

(* The event loop: what it finds in progress it marks, and arms the timer. *)
LEMMA DebounceSync ==
  ASSUME SyncInv, TypeOK, NEW p \in Procs, Debounce(p)
  PROVE  SyncInv'
<1>1. \A r \in Reloaders :
        /\ reload'[r].pc = reload[r].pc /\ reload'[r].val = reload[r].val
        /\ reload'[r].late = (reload[r].pc # "idle")
  BY DEF Debounce, Late, TypeOK
<1>2. ReloadInv'
  BY <1>1 DEF Debounce, SyncInv, ReloadInv, Busy, Up
<1>3. RunInv'
  BY DEF Debounce, SyncInv, RunInv, Up
<1>4. update'.pc = update.pc
  BY DEF Debounce, Late, TypeOK
<1>5. StartInv'
  BY <1>4 DEF Debounce, SyncInv, StartInv, Parse
<1>6. UpdateInv'
  BY <1>4 DEF Debounce, SyncInv, UpdateInv
<1> QED BY <1>2, <1>3, <1>5, <1>6 DEF SyncInv

(* A reload's read, from the timer or from a SIGHUP.  No reload that was   *)
(* marked is left when the timer fires.                                    *)
LEMMA ReadsSync ==
  ASSUME SyncInv, TypeOK, NEW p \in Procs, NEW r \in Reloaders,
         Up(p), Reads(p, r),
         \/ UNCHANGED timer
         \/ timer' = FALSE /\ \A q \in Reloaders : ~reload[q].late
  PROVE  SyncInv'
<1>1. UNCHANGED <<stage, lock, file, mem, inst, watching, event, update>>
  BY DEF Reads
<1>0. UpdateInv' BY <1>1 DEF SyncInv, UpdateInv
<1>2. StartInv'
  <2>1. \A q \in Procs : q # p => blind'[q] = blind[q]
    BY DEF Reads, TypeOK
  <2>2. stage[p] = "up" BY DEF Up
  <2> QED BY <1>1, <2>1, <2>2 DEF SyncInv, StartInv, Starting, Parse
<1>3. CASE file = Garbled
  <2>1. reload' = reload /\ blind' = blind BY <1>3 DEF Reads
  <2>2. ReloadInv' BY <1>1, <2>1 DEF SyncInv, ReloadInv, Busy, Up, Parse
  <2>3. RunInv' BY <1>1, <1>3, <2>1 DEF SyncInv, RunInv, Up
  <2> QED BY <1>0, <1>2, <2>2, <2>3 DEF SyncInv
<1>4. CASE file # Garbled
  <2>1. /\ reload'[r].pc = "swap" /\ reload'[r].val = Parse(file) /\ ~reload'[r].late
        /\ \A q \in Reloaders : q # r => reload'[q] = reload[q]
        /\ blind'[p] = ~watching
    BY <1>4 DEF Reads, TypeOK
  <2>2. ReloadInv'
    <3>1. \E q \in Procs : Up(q)' BY <1>1 DEF Up
    <3>2. \A q \in Reloaders : reload'[q].late => timer'
      BY <2>1 DEF SyncInv, ReloadInv
    <3>3. ASSUME NEW q \in Reloaders, Busy(q)', ~reload'[q].late, ~event', watching'
          PROVE  reload'[q].val = Parse(file)
      BY <1>1, <2>1, <3>3 DEF SyncInv, ReloadInv, Busy
    <3> QED BY <1>1, <3>1, <3>2, <3>3 DEF ReloadInv, Parse
  <2>3. RunInv'
    <3>1. \A q \in Procs : Up(q)' => q = p BY <1>1 DEF Up
    <3>2. Busy(r)' BY <2>1 DEF Busy
    <3> QED BY <1>1, <2>1, <3>1, <3>2 DEF RunInv
  <2> QED BY <1>0, <1>2, <2>2, <2>3 DEF SyncInv
<1> QED BY <1>3, <1>4

(* With nothing pending, the reload has read the file as it is. *)
LEMMA SwapSync ==
  ASSUME SyncInv, TypeOK, NEW p \in Procs, NEW r \in Reloaders, Swap(p, r)
  PROVE  SyncInv'
<1>1. /\ UNCHANGED <<stage, lock, file, inst, blind, watching, event, timer, update>>
      /\ mem'[p] = reload[r].val
      /\ \A q \in Procs : q # p => mem'[q] = mem[q]
      /\ reload[r].pc = "swap" /\ reload'[r].pc = "install"
      /\ reload'[r].val = reload[r].val /\ reload'[r].late = reload[r].late
      /\ \A q \in Reloaders : q # r => reload'[q] = reload[q]
  BY DEF Swap, TypeOK
<1>2. stage[p] = "up" /\ lock = p BY DEF Swap, Up
<1>3. StartInv'
  BY <1>1, <1>2 DEF SyncInv, StartInv, Starting, Parse
<1>4. ReloadInv'
  BY <1>1 DEF SyncInv, ReloadInv, Busy, Up, Parse
<1>5. RunInv'
  <2>1. \A q \in Procs : Up(q)' => q = p BY <1>1, <1>2 DEF Up
  <2>2. Busy(r)' /\ Busy(r) BY <1>1 DEF Busy
  <2>3. ~event /\ ~timer /\ watching => mem'[p] = Parse(file)
    BY <1>1, <2>2 DEF SyncInv, ReloadInv
  <2>4. ~blind[p] => watching BY <1>2 DEF SyncInv, RunInv, Up
  <2> QED BY <1>1, <2>1, <2>2, <2>3, <2>4 DEF RunInv, Parse
<1>6. UpdateInv' BY <1>1 DEF SyncInv, UpdateInv
<1> QED BY <1>3, <1>4, <1>5, <1>6 DEF SyncInv

(* What onLoad installs is what was read, or what is in memory, which is   *)
(* the file's or is about to be replaced by another reload.                *)
LEMMA InstallSync ==
  ASSUME SyncInv, TypeOK, NEW p \in Procs, NEW r \in Reloaders, Install(p, r)
  PROVE  SyncInv'
<1>1. /\ UNCHANGED <<stage, lock, file, mem, blind, watching, event, timer, update>>
      /\ \E c, d \in {reload[r].val, mem[p]} : inst'[p] = [rules |-> c, live |-> d]
      /\ \A q \in Procs : q # p => inst'[q] = inst[q]
      /\ reload[r].pc = "install" /\ reload'[r] = Idle
      /\ \A q \in Reloaders : q # r => reload'[q] = reload[q]
  BY DEF Install, TypeOK
<1>2. stage[p] = "up" /\ lock = p BY DEF Install, Up
<1>3. StartInv'
  BY <1>1, <1>2 DEF SyncInv, StartInv, Starting, Parse
<1>4. ReloadInv'
  BY <1>1 DEF SyncInv, ReloadInv, Busy, Up, Parse, Idle
<1>5. RunInv'
  <2> SUFFICES ASSUME ~blind[p], ~event, ~timer, file # Garbled
               PROVE  /\ mem[p] = Parse(file) \/ \E q \in Reloaders : reload'[q].pc = "swap"
                      /\ inst'[p] = Built(Parse(file))
                           \/ \E q \in Reloaders : reload'[q].pc = "swap"
    <3>1. \A q \in Procs : Up(q)' => q = p BY <1>1, <1>2 DEF Up
    <3>2. ~blind[p] => watching BY <1>2 DEF SyncInv, RunInv, Up
    <3> QED BY <1>1, <3>1, <3>2 DEF RunInv, Parse, Busy
  <2>1. watching BY <1>2 DEF SyncInv, RunInv, Up
  <2>2. reload[r].val = Parse(file) BY <1>1, <2>1 DEF SyncInv, ReloadInv, Busy
  <2>3. mem[p] = Parse(file) \/ \E q \in Reloaders : reload[q].pc = "swap"
    BY <1>1, <1>2 DEF SyncInv, RunInv, Up
  <2>4. mem[p] = Parse(file) \/ \E q \in Reloaders : reload'[q].pc = "swap"
    BY <1>1, <2>3
  <2> QED BY <1>1, <2>2, <2>4 DEF Built
<1>6. UpdateInv' BY <1>1 DEF SyncInv, UpdateInv
<1> QED BY <1>3, <1>4, <1>5, <1>6 DEF SyncInv

(* The handler's installation reads memory too. *)
LEMMA UpdateInstallSync ==
  ASSUME SyncInv, TypeOK, NEW p \in Procs, UpdateInstall(p)
  PROVE  SyncInv'
<1>1. /\ UNCHANGED <<stage, lock, file, mem, blind, watching, event, timer, reload>>
      /\ inst'[p] = [inst[p] EXCEPT !.rules = mem[p]] /\ lock = p
      /\ \A q \in Procs : q # p => inst'[q] = inst[q]
      /\ update.pc = "rules" /\ update'.pc = "idle"
  BY DEF UpdateInstall, TypeOK, Idle
<1>2. StartInv'
  BY <1>1 DEF SyncInv, StartInv, Starting, Parse
<1>5. UpdateInv' BY <1>1 DEF UpdateInv
<1>3. ReloadInv'
  BY <1>1 DEF SyncInv, ReloadInv, Busy, Up, Parse
<1>4. RunInv'
  BY <1>1 DEF SyncInv, RunInv, Up, Parse, Busy, Built
<1> QED BY <1>2, <1>3, <1>4, <1>5 DEF SyncInv

(* A change that was not saved reaches no component, unless a callback has *)
(* the configuration in hand, and then p counts as blind.                  *)
LEMMA UpdateRefusedSync ==
  ASSUME SyncInv, TypeOK, NEW p \in Procs, NEW c \in Values, UpdateRefused(p, c)
  PROVE  SyncInv'
<1>1. /\ UNCHANGED <<stage, lock, file, inst, watching, event, timer, reload, update>>
      /\ lock = p /\ stage[p] \in {"api", "up"} /\ update.pc = "idle"
      /\ \A q \in Procs : q # p => mem'[q] = mem[q] /\ blind'[q] = blind[q]
      /\ ~blind'[p] => ~blind[p] /\ \A r \in Reloaders : reload[r].pc # "install"
  BY DEF UpdateRefused, watchVars, TypeOK
<1>2. StartInv'
  BY <1>1 DEF SyncInv, StartInv, Starting, Parse
<1>3. ReloadInv'
  BY <1>1 DEF SyncInv, ReloadInv, Busy, Up, Parse
<1>4. UpdateInv' BY <1>1 DEF UpdateInv
<1>5. RunInv'
  <2>1. \A q \in Procs : Up(q)' => q = p /\ Up(q) BY <1>1 DEF Up
  <2> QED BY <1>1, <2>1 DEF SyncInv, RunInv, Parse, Busy
<1> QED BY <1>2, <1>3, <1>4, <1>5 DEF SyncInv

(* Writes by handlers and by the editor. *)
LEMMA OtherWriteSync ==
  ASSUME SyncInv, TypeOK, Touched(NoProc), UNCHANGED <<stage, lock, watching, timer, reload>>,
         UpdateInv'
  PROVE  SyncInv'
<1>1. NoProc \notin Procs BY ConfigAssumption
<1>2. ReloadInv' /\ RunInv' /\ \A q \in Procs : q # NoProc => Started(q)'
  BY <1>1, TouchedKeeps
<1> QED BY <1>1, <1>2 DEF SyncInv, StartInv, Started

LEMMA EditReplaceSync ==
  ASSUME SyncInv, TypeOK, NEW c \in Values, EditReplace(c)
  PROVE  SyncInv'
<1>1. StartInv' BY DEF EditReplace, StartInv, Starting, TypeOK
<1>2. RunInv' BY DEF EditReplace, RunInv, Up, TypeOK
<1>3. ReloadInv' BY DEF EditReplace, SyncInv, ReloadInv, Busy, Up
<1>4. UpdateInv' BY DEF EditReplace, SyncInv, UpdateInv
<1> QED BY <1>1, <1>2, <1>3, <1>4 DEF SyncInv

LEMMA SyncStep ==
  ASSUME "slow" \notin Faults, SyncInv, TypeOK, HolderInv, [Next]_vars
  PROVE  SyncInv'
<1>1. ASSUME NEW p \in Procs, StartStep(p) PROVE SyncInv'
  BY <1>1, StartWriteSync, StartQuietSync, StartWatcherSync DEF StartStep
<1>2. ASSUME NEW p \in Procs, Ends(p) PROVE SyncInv'
  BY <1>2, EndsSync
<1>3. ASSUME NEW p \in Procs, Debounce(p) PROVE SyncInv'
  BY <1>3, DebounceSync
<1>4. ASSUME NEW p \in Procs, Sighup(p) PROVE SyncInv'
  BY <1>4, ReadsSync DEF Sighup, Reloaders
<1>5. ASSUME NEW p \in Procs, NEW r \in Timers, Fire(p, r) PROVE SyncInv'
  BY <1>5, ReadsSync DEF Fire, Reloaders
<1>6. ASSUME NEW p \in Procs, NEW r \in Reloaders, ReloadStep(p, r) PROVE SyncInv'
  BY <1>6, SwapSync, InstallSync DEF ReloadStep
<1>7. ASSUME NEW p \in Procs, UpdateStep(p) PROVE SyncInv'
  <2>1. CASE UpdateEnd(p)
    <3>1. UpdateInv' BY <2>1 DEF UpdateEnd, SyncInv, UpdateInv
    <3> QED BY <2>1, <3>1, OtherWriteSync DEF UpdateEnd, Writes
  <2>2. CASE UpdateFails(p)
    BY <2>2 DEF UpdateFails, SyncInv, StartInv, ReloadInv, UpdateInv, RunInv, Busy, Up,
                Parse, Idle
  <2>3. CASE UpdateInstall(p) BY <2>3, UpdateInstallSync
  <2> QED BY <1>7, <2>1, <2>2, <2>3 DEF UpdateStep
<1>8. ASSUME NEW p \in Procs, NEW c \in Values, UpdateBegin(p, c) PROVE SyncInv'
  <2>1. UpdateInv' BY <1>8 DEF UpdateBegin, UpdateInv
  <2> QED BY <1>8, <2>1, OtherWriteSync DEF UpdateBegin, Truncates
<1>13. ASSUME NEW p \in Procs, NEW c \in Values, UpdateRefused(p, c) PROVE SyncInv'
  BY <1>13, UpdateRefusedSync
<1>9. CASE EditBegin
  <2>1. UpdateInv' BY <1>9 DEF EditBegin, SyncInv, UpdateInv
  <2> QED BY <1>9, <2>1, OtherWriteSync DEF EditBegin, Truncates
<1>10. ASSUME NEW c \in Values \cup {Garbled}, EditEnd(c) PROVE SyncInv'
  <2>1. UpdateInv' BY <1>10 DEF EditEnd, SyncInv, UpdateInv
  <2> QED BY <1>10, <2>1, OtherWriteSync DEF EditEnd, Writes
<1>11. ASSUME NEW c \in Values, EditReplace(c) PROVE SyncInv'
  BY <1>11, EditReplaceSync
<1>12. CASE UNCHANGED vars
  BY <1>12 DEF vars, watchVars, SyncInv, StartInv, ReloadInv, UpdateInv, RunInv, Busy, Up,
               Parse
<1> QED BY <1>1, <1>2, <1>3, <1>4, <1>5, <1>6, <1>7, <1>8, <1>9, <1>10, <1>11, <1>12, <1>13
        DEF Next

(* Whatever order edits, updates, half-written files, events, SIGHUPs and  *)
(* reloads come in, a daemon with nothing more to do enforces the rules    *)
(* and the live settings in config.yaml if the watch saw its changes and   *)
(* no save failed under a callback at work: for any number of processes,   *)
(* timers and configurations, and any faults, saves that fail before or    *)
(* after the truncation among them, but a reload that outlasts the 200 ms  *)
(* of the debouncing.                                                      *)
THEOREM InSyncHolds ==
  ASSUME "slow" \notin Faults
  PROVE  Spec => []InSync
<1>1. Init => HolderInv /\ SyncInv
  BY ConfigAssumption
  DEF Init, HolderInv, AfterLock, SyncInv, StartInv, ReloadInv, UpdateInv, RunInv, Busy, Up, Idle,
      Starting
<1>2. Wellformed /\ HolderInv /\ SyncInv /\ [Next]_vars => (HolderInv /\ SyncInv)'
  BY HolderStep, SyncStep DEF Wellformed
<1>3. SyncInv => InSync
  BY DEF SyncInv, RunInv, InSync, Settled, Follows, Busy, Built
<1> QED BY <1>1, <1>2, <1>3, InitTypes, NextTypes, PTL DEF Spec
=============================================================================
