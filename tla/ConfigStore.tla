---------------------------- MODULE ConfigStore ----------------------------
(***************************************************************************)
(* What a daemon keeps under ~/.redactr besides its state files: config.   *)
(* yaml with the manager and the watcher around it (internal/config), and  *)
(* the CA (internal/certgen), through the start-up of daemons that replace *)
(* one another (internal/daemon Build and Start).                          *)
(*                                                                         *)
(* A file is rewritten in place (os.WriteFile), so that it is empty for a  *)
(* while, and other processes and a crash see that: the daemon itself, its *)
(* successor, which rewrites config.yaml before it asks for the lock, and  *)
(* an editor all write config.yaml.  AcquireSingleton is a lock here;      *)
(* Singleton.tla is about how it comes to be one.  Only the holder of the  *)
(* lock serves and watches, so the goroutines below are the holder's.      *)
(***************************************************************************)
EXTENDS Naturals

CONSTANTS
  Procs,       \* daemon processes, each started at most once
  NoProc,      \* no process
  Values,      \* configurations
  Default,     \* DefaultConfig()
  Timers,      \* goroutines of time.AfterFunc
  Faults,      \* what the environment does: a subset of AllFaults
  MaxChanges   \* bound on updates, edits and SIGHUPs

(* A process ends where it is; a save fails, before it opens the file or   *)
(* after it truncated it; an editor replaces the file by a rename; a    *)
(* reload takes longer than the 200 ms of the debouncing.                  *)
AllFaults == {"crash", "disk", "rename", "slow"}

(* What a file may hold besides a configuration or a process's material.   *)
Absent == "absent"
Empty == "empty"
Garbled == "garbled"

Loop == "loop"
Reloaders == Timers \cup {Loop}

ASSUME ConfigAssumption ==
  /\ NoProc \notin Procs
  /\ Default \in Values
  /\ Values \cap {Absent, Empty, Garbled} = {}
  /\ Procs \cap {Absent, Empty} = {}
  /\ Loop \notin Timers
  /\ Faults \subseteq AllFaults
  /\ MaxChanges \in Nat

VARIABLES
  stage,     \* stage[p]: where process p is
  lock,      \* the process that holds the singleton lock, or NoProc
  file,      \* config.yaml
  crt, key,  \* ca.crt and ca.key: the process whose CA they hold
  mem,       \* mem[p]: Manager.cfg
  inst,      \* inst[p]: whose rules and live settings p's components enforce
  ca,        \* ca[p]: the certificate and key p serves with, or NoProc
  blind,     \* blind[p]: the file may have changed unseen by p's watch, or the
             \* components may have taken over a change that was not saved
  watching,  \* the watch on the file exists
  event,     \* an unread Write event
  timer,     \* the debouncing timer is armed
  reload,    \* reload[r]: the reload in goroutine r
  update,    \* the handler that is in Manager.Update
  editor,    \* an editor has truncated the file and not written it yet
  changes    \* updates, edits and SIGHUPs so far

watchVars == <<watching, event, timer, reload, update>>
caVars == <<crt, key, ca>>
vars == <<stage, lock, file, caVars, mem, inst, blind, watchVars, editor, changes>>

Starting == {"create", "loaded", "rewrite", "waiting", "ca", "generate", "cert",
             "certified", "key", "build", "api"}
Stages == {"new", "up", "gone"} \cup Starting

(* yaml.Unmarshal into DefaultConfig(): an empty file gives the defaults.  *)
Parse(f) == IF f = Empty THEN Default ELSE f

(* The parts of a configuration that a running daemon takes over: the      *)
(* rules, with the file blocking that follows them (coord.Reconfigure),    *)
(* and what else the watcher's callback hands to the components (allowed   *)
(* words, timeout, bypass, logging).  The rest (entropy threshold, cache   *)
(* size, the domains) only Build reads; nothing here is about it.          *)
Built(c) == [rules |-> c, live |-> c]

Idle == [pc |-> "idle", val |-> Default, late |-> FALSE]

Init ==
  /\ stage = [p \in Procs |-> "new"]
  /\ lock = NoProc
  /\ file \in Values \cup {Absent}
  /\ crt = Absent /\ key = Absent
  /\ mem = [p \in Procs |-> Default]
  /\ inst = [p \in Procs |-> Built(Default)]
  /\ ca = [p \in Procs |-> NoProc]
  /\ blind = [p \in Procs |-> FALSE]
  /\ watching = FALSE /\ event = FALSE /\ timer = FALSE
  /\ reload = [r \in Reloaders |-> Idle]
  /\ update = Idle
  /\ editor = FALSE
  /\ changes = 0

Goto(p, s) == stage' = [stage EXCEPT ![p] = s]

-----------------------------------------------------------------------------
(* Writes of config.yaml.  The holder's watch sees them; a process other   *)
(* than the writer that has read the file and does not watch it does not.  *)
Touched(writer) ==
  /\ event' = (event \/ watching)
  /\ blind' = [p \in Procs |->
       \/ blind[p]
       \/ p # writer /\ (stage[p] \in Starting \/ (stage[p] = "up" /\ ~watching))]

Truncates(writer) == file' = Empty /\ Touched(writer)

(* A write into a file that another one has written since it was truncated *)
(* leaves what is longer of the other's behind it.                         *)
Writes(writer, c) ==
  /\ \/ file' = c
     \/ file # Empty /\ file' = Garbled
  /\ Touched(writer)

-----------------------------------------------------------------------------
(* Build: NewManager, then the Update of the one-time migration, which     *)
(* rewrites the file at every start, and only then AcquireSingleton.       *)
Load(p) ==
  /\ stage[p] = "new"
  /\ file \in Values \cup {Empty}
  /\ mem' = [mem EXCEPT ![p] = Parse(file)]
  /\ Goto(p, "loaded")
  /\ UNCHANGED <<lock, file, caVars, inst, blind, watchVars, editor, changes>>

LoadCreates(p) ==
  /\ stage[p] = "new"
  /\ file = Absent
  /\ Truncates(p)
  /\ mem' = [mem EXCEPT ![p] = Default]
  /\ Goto(p, "create")
  /\ UNCHANGED <<lock, caVars, inst, watching, timer, reload, update, editor, changes>>

(* What is there does not parse, or the defaults cannot be saved. *)
LoadFails(p) ==
  /\ \/ stage[p] = "new" /\ file = Garbled
     \/ "disk" \in Faults /\ stage[p] = "new" /\ file = Absent
     \/ "disk" \in Faults /\ stage[p] = "create"
  /\ Goto(p, "gone")
  /\ UNCHANGED <<lock, file, caVars, mem, inst, blind, watchVars, editor, changes>>

Created(p) ==
  /\ stage[p] = "create"
  /\ Writes(p, Default)
  /\ Goto(p, "loaded")
  /\ UNCHANGED <<lock, caVars, mem, inst, watching, timer, reload, update, editor, changes>>

Migrate(p) ==
  /\ stage[p] = "loaded"
  /\ Truncates(p)
  /\ Goto(p, "rewrite")
  /\ UNCHANGED <<lock, caVars, mem, inst, watching, timer, reload, update, editor, changes>>

Migrated(p) ==
  /\ stage[p] = "rewrite"
  /\ Writes(p, mem[p])
  /\ Goto(p, "waiting")
  /\ UNCHANGED <<lock, caVars, mem, inst, watching, timer, reload, update, editor, changes>>

(* "config migration warning": Build goes on, with the file as it was or   *)
(* truncated.                                                              *)
MigrateFails(p) ==
  /\ "disk" \in Faults
  /\ stage[p] \in {"loaded", "rewrite"}
  /\ blind' = [blind EXCEPT ![p] = TRUE]
  /\ Goto(p, "waiting")
  /\ UNCHANGED <<lock, file, caVars, mem, inst, watchVars, editor, changes>>

(* Mutant: a shared lock. *)
AcquireShared(p) ==
  /\ stage[p] = "waiting"
  /\ lock' = p
  /\ Goto(p, "ca")
  /\ UNCHANGED <<file, caVars, mem, inst, blind, watchVars, editor, changes>>

Acquire(p) ==
  /\ stage[p] = "waiting"
  /\ lock = NoProc
  /\ lock' = p
  /\ Goto(p, "ca")
  /\ UNCHANGED <<file, caVars, mem, inst, blind, watchVars, editor, changes>>

-----------------------------------------------------------------------------
(* LoadOrCreateCA.  Whether to load is decided by the existence of ca.crt; *)
(* nobody compares certificate and key.                                    *)
LoadCA(p) ==
  /\ stage[p] = "ca"
  /\ crt \in Procs /\ key \in Procs
  /\ ca' = [ca EXCEPT ![p] = <<crt, key>>]
  /\ Goto(p, "build")
  /\ UNCHANGED <<lock, file, crt, key, mem, inst, blind, watchVars, editor, changes>>

(* A missing file is an error, an empty one a nil block and a panic. *)
LoadCAFails(p) ==
  /\ stage[p] = "ca"
  /\ crt # Absent
  /\ crt \notin Procs \/ key \notin Procs
  /\ Goto(p, "gone")
  /\ lock' = NoProc
  /\ UNCHANGED <<file, caVars, mem, inst, blind, watchVars, editor, changes>>

GenerateCA(p) ==
  /\ stage[p] = "ca"
  /\ crt = Absent
  /\ Goto(p, "generate")
  /\ UNCHANGED <<lock, file, caVars, mem, inst, blind, watchVars, editor, changes>>

WriteCert(p) ==
  /\ \/ stage[p] = "generate" /\ crt' = Empty /\ Goto(p, "cert")
     \/ stage[p] = "cert" /\ crt' = p /\ Goto(p, "certified")
  /\ UNCHANGED <<lock, file, key, ca, mem, inst, blind, watchVars, editor, changes>>

WriteKey(p) ==
  /\ \/ stage[p] = "certified" /\ key' = Empty /\ Goto(p, "key") /\ ca' = ca
     \/ stage[p] = "key" /\ key' = p /\ Goto(p, "build")
          /\ ca' = [ca EXCEPT ![p] = <<p, p>>]
  /\ UNCHANGED <<lock, file, crt, mem, inst, blind, watchVars, editor, changes>>

-----------------------------------------------------------------------------
(* The rest of Build installs what the manager holds.  Start serves the    *)
(* API some time before it starts the watcher.                             *)
Serve(p) ==
  /\ stage[p] = "build"
  /\ inst' = [inst EXCEPT ![p] = Built(mem[p])]
  /\ Goto(p, "api")
  /\ UNCHANGED <<lock, file, caVars, mem, blind, watchVars, editor, changes>>

StartWatcher(p) ==
  /\ stage[p] = "api"
  /\ watching' = TRUE
  /\ Goto(p, "up")
  /\ UNCHANGED <<lock, file, caVars, mem, inst, blind, event, timer, reload, update,
                 editor, changes>>

(* A process ends, in the middle of a write too: Stop does not wait for    *)
(* handlers (Server.Stop closes the listener only).  What it had in memory *)
(* goes with it.  The holder of the lock is replaced by one that waits.    *)
Ends(p) ==
  /\ stage[p] \notin {"new", "gone"}
  /\ \/ "crash" \in Faults
     \/ lock = p /\ \E q \in Procs : stage[q] = "waiting"
  /\ Goto(p, "gone")
  /\ IF lock = p
     THEN /\ lock' = NoProc
          /\ watching' = FALSE /\ event' = FALSE /\ timer' = FALSE
          /\ reload' = [r \in Reloaders |-> Idle]
          /\ update' = Idle
     ELSE UNCHANGED <<lock, watchVars>>
  /\ mem' = [mem EXCEPT ![p] = Default]
  /\ inst' = [inst EXCEPT ![p] = Built(Default)]
  /\ blind' = [blind EXCEPT ![p] = FALSE]
  /\ UNCHANGED <<file, caVars, editor, changes>>

-----------------------------------------------------------------------------
(* Watcher.loop.  The goroutine that reads the events also runs the reload *)
(* of a SIGHUP; the timer's function runs in a goroutine of its own.       *)
Up(p) == lock = p /\ stage[p] = "up"

(* What is in progress when the timer is armed. *)
Late(x) == [x EXCEPT !.late = x.pc # "idle"]

(* Mutant: an event that comes during a reload is dropped. *)
DebounceUnlessBusy(p) ==
  /\ Up(p)
  /\ event
  /\ reload[Loop].pc = "idle"
  /\ event' = FALSE
  /\ timer' = (timer \/ \A r \in Timers : reload[r].pc = "idle")
  /\ reload' = [r \in Reloaders |-> Late(reload[r])]
  /\ update' = Late(update)
  /\ UNCHANGED <<stage, lock, file, caVars, mem, inst, blind, watching, editor, changes>>

Debounce(p) ==
  /\ Up(p)
  /\ event
  /\ reload[Loop].pc = "idle"
  /\ event' = FALSE
  /\ timer' = TRUE
  /\ reload' = [r \in Reloaders |-> Late(reload[r])]
  /\ update' = Late(update)
  /\ UNCHANGED <<stage, lock, file, caVars, mem, inst, blind, watching, editor, changes>>

(* Manager.Reload reads and parses without the lock; an error keeps what   *)
(* there is.                                                               *)
Reads(p, r) ==
  /\ reload[r].pc = "idle"
  /\ IF file = Garbled
     THEN UNCHANGED <<reload, blind>>
     ELSE /\ reload' = [reload EXCEPT ![r] =
                          [pc |-> "swap", val |-> Parse(file), late |-> FALSE]]
          /\ blind' = [blind EXCEPT ![p] = ~watching]
  /\ UNCHANGED <<stage, lock, file, caVars, mem, inst, watching, event, update, editor>>

(* The timer fires 200 ms after it was armed: unless it is slow, what was  *)
(* in progress then is over.                                               *)
Fire(p, r) ==
  /\ Up(p)
  /\ timer
  /\ \/ "slow" \in Faults
     \/ ~update.late /\ \A q \in Reloaders : ~reload[q].late
  /\ timer' = FALSE
  /\ Reads(p, r)
  /\ UNCHANGED changes

Sighup(p) ==
  /\ Up(p)
  /\ changes < MaxChanges
  /\ changes' = changes + 1
  /\ Reads(p, Loop)
  /\ UNCHANGED timer

(* The lock is the one Update holds while it saves. *)
Swap(p, r) ==
  /\ Up(p)
  /\ reload[r].pc = "swap"
  /\ update.pc # "saving"
  /\ mem' = [mem EXCEPT ![p] = reload[r].val]
  /\ reload' = [reload EXCEPT ![r].pc = "install"]
  /\ UNCHANGED <<stage, lock, file, caVars, inst, blind, watching, event, timer, update,
                 editor, changes>>

(* Mutant: onLoad is called under the manager's lock and asks it for the   *)
(* configuration, which waits for the lock.                                *)
InstallWaits(p, r) == Up(p) /\ reload[r].pc = "install" /\ UNCHANGED vars

(* onLoad gets the very object Update changes in place, and reads it       *)
(* without the lock: of each part it hands on it installs what was loaded  *)
(* or what is there by now.                                                *)
Install(p, r) ==
  /\ Up(p)
  /\ reload[r].pc = "install"
  /\ \E c, d \in {reload[r].val, mem[p]} :
       inst' = [inst EXCEPT ![p] = [rules |-> c, live |-> d]]
  /\ reload' = [reload EXCEPT ![r] = Idle]
  /\ UNCHANGED <<stage, lock, file, caVars, mem, blind, watching, event, timer, update,
                 editor, changes>>

-----------------------------------------------------------------------------
(* Manager.Update by a handler of the API: the configuration in memory,    *)
(* then the file, both under the lock.  PUT /api/rules then installs the   *)
(* rules the manager holds; the others leave it to the watcher.            *)
UpdateBegin(p, c) ==
  /\ lock = p /\ stage[p] \in {"api", "up"}
  /\ update.pc = "idle"
  /\ changes < MaxChanges
  /\ changes' = changes + 1
  /\ mem' = [mem EXCEPT ![p] = c]
  /\ Truncates(NoProc)
  /\ update' = [pc |-> "saving", val |-> c, late |-> FALSE]
  /\ UNCHANGED <<stage, lock, caVars, inst, watching, timer, reload, editor>>

UpdateEnd(p) ==
  /\ lock = p
  /\ update.pc = "saving"
  /\ Writes(NoProc, update.val)
  /\ update' \in {Idle, [update EXCEPT !.pc = "rules"]}
  /\ UNCHANGED <<stage, lock, caVars, mem, inst, watching, timer, reload, editor, changes>>

(* os.WriteFile cannot open the file: memory is changed all the same, the  *)
(* handler answers 500 and no event will come.  A callback at work may     *)
(* take the change for what it was given.                                  *)
UpdateRefused(p, c) ==
  /\ "disk" \in Faults
  /\ lock = p /\ stage[p] \in {"api", "up"}
  /\ update.pc = "idle"
  /\ changes < MaxChanges
  /\ changes' = changes + 1
  /\ mem' = [mem EXCEPT ![p] = c]
  /\ blind' = [blind EXCEPT ![p] = @ \/ \E r \in Reloaders : reload[r].pc = "install"]
  /\ UNCHANGED <<stage, lock, file, caVars, inst, watchVars, editor>>

(* A write that fails leaves the truncated file, and memory changed. *)
UpdateFails(p) ==
  /\ "disk" \in Faults
  /\ lock = p
  /\ update.pc = "saving"
  /\ update' = Idle
  /\ UNCHANGED <<stage, lock, file, caVars, mem, inst, blind, watching, event, timer,
                 reload, editor, changes>>

UpdateInstall(p) ==
  /\ lock = p
  /\ update.pc = "rules"
  /\ inst' = [inst EXCEPT ![p].rules = mem[p]]
  /\ update' = Idle
  /\ UNCHANGED <<stage, lock, file, caVars, mem, blind, watching, event, timer, reload,
                 editor, changes>>

-----------------------------------------------------------------------------
(* The user's editor: in place, or (fault rename) by a new file under the  *)
(* old name, on which the watch on the old one ends for good.              *)
EditBegin ==
  /\ ~editor
  /\ changes < MaxChanges
  /\ file # Absent
  /\ changes' = changes + 1
  /\ editor' = TRUE
  /\ Truncates(NoProc)
  /\ UNCHANGED <<stage, lock, caVars, mem, inst, watching, timer, reload, update>>

EditEnd(c) ==
  /\ editor
  /\ editor' = FALSE
  /\ Writes(NoProc, c)
  /\ UNCHANGED <<stage, lock, caVars, mem, inst, watching, timer, reload, update, changes>>

EditReplace(c) ==
  /\ "rename" \in Faults
  /\ ~editor
  /\ changes < MaxChanges
  /\ file # Absent
  /\ changes' = changes + 1
  /\ file' = c
  /\ watching' = FALSE
  /\ event' = event
  /\ blind' = [p \in Procs |-> blind[p] \/ stage[p] \in Starting \cup {"up"}]
  /\ UNCHANGED <<stage, lock, caVars, mem, inst, timer, reload, update, editor>>

-----------------------------------------------------------------------------
StartStep(p) ==
  \/ Load(p) \/ LoadCreates(p) \/ LoadFails(p) \/ Created(p)
  \/ Migrate(p) \/ Migrated(p) \/ MigrateFails(p) \/ Acquire(p)
  \/ LoadCA(p) \/ LoadCAFails(p) \/ GenerateCA(p) \/ WriteCert(p) \/ WriteKey(p)
  \/ Serve(p) \/ StartWatcher(p)

ReloadStep(p, r) == Swap(p, r) \/ Install(p, r)

UpdateStep(p) == UpdateEnd(p) \/ UpdateFails(p) \/ UpdateInstall(p)

Next ==
  \/ \E p \in Procs :
       \/ StartStep(p) \/ Ends(p)
       \/ Debounce(p) \/ Sighup(p) \/ UpdateStep(p)
       \/ \E r \in Timers : Fire(p, r)
       \/ \E r \in Reloaders : ReloadStep(p, r)
       \/ \E c \in Values : UpdateBegin(p, c) \/ UpdateRefused(p, c)
  \/ EditBegin
  \/ \E c \in Values \cup {Garbled} : EditEnd(c)
  \/ \E c \in Values : EditReplace(c)

Spec == Init /\ [][Next]_vars

(* The goroutines of a daemon are scheduled, and a timer fires.  Nothing   *)
(* is asked of users, of newcomers or of the editor.                       *)
FairSpec ==
  /\ Spec
  /\ \A p \in Procs :
       /\ WF_vars(Debounce(p))
       /\ WF_vars(\E r \in Timers : Fire(p, r))
       /\ WF_vars(UpdateStep(p))
       /\ \A r \in Reloaders : WF_vars(ReloadStep(p, r))

-----------------------------------------------------------------------------
(* Files, goroutines and stages are well formed. *)
TypeOK ==
  /\ stage \in [Procs -> Stages]
  /\ lock \in Procs \cup {NoProc}
  /\ file \in Values \cup {Absent, Empty, Garbled}
  /\ crt \in Procs \cup {Absent, Empty} /\ key \in Procs \cup {Absent, Empty}
  /\ mem \in [Procs -> Values]
  /\ inst \in [Procs -> [rules : Values, live : Values]]
  /\ ca \in [Procs -> (Procs \X Procs) \cup {NoProc}]
  /\ blind \in [Procs -> BOOLEAN]
  /\ watching \in BOOLEAN /\ event \in BOOLEAN /\ timer \in BOOLEAN /\ editor \in BOOLEAN
  /\ reload \in [Reloaders -> [pc : {"idle", "swap", "install"}, val : Values, late : BOOLEAN]]
  /\ update \in [pc : {"idle", "saving", "rules"}, val : Values, late : BOOLEAN]
  /\ changes \in 0..MaxChanges

(* Nothing is on its way from the file to the components. *)
Settled ==
  /\ ~event /\ ~timer
  /\ update.pc = "idle"
  /\ \A r \in Reloaders : reload[r].pc = "idle"

(* The parts a running daemon takes over are the file's.  Memory may hold  *)
(* more: a change whose save failed.                                       *)
Follows(p) == inst[p].rules = Parse(file) /\ inst[p].live = Parse(file)

(* Whatever order edits, updates, half-written files, events, SIGHUPs and  *)
(* reloads come in, a daemon that has nothing more to do enforces the      *)
(* rules and the live settings in config.yaml, provided that the file is a *)
(* configuration and that the watch saw its changes: no reload that read   *)
(* an older file has the last word, and no change whose save failed is     *)
(* enforced unless a callback was at work on it.                           *)
InSync ==
  \A p \in Procs :
    Up(p) /\ Settled /\ ~blind[p] /\ file # Garbled => Follows(p)

(* Once the changes end, every daemon gets there and stays. *)
Converges ==
  \A p \in Procs :
    <>[](Up(p) /\ ~blind[p] /\ file # Garbled => Follows(p))

(* All daemons that ever serve do so under one CA, with the key that goes  *)
(* with its certificate, though starts overlap and processes die between   *)
(* the writes of the two files.                                            *)
OneCa ==
  \A p, q \in Procs :
    ca[p] # NoProc /\ ca[q] # NoProc => ca[p] = ca[q] /\ ca[p][1] = ca[p][2]

(* A daemon's reading of the file and its watch leave no gap. *)
NoBlindSpot == \A p \in Procs : Up(p) => ~blind[p]

(* A reload never puts back what an Update has replaced since it read the  *)
(* file, for the next Update would save that.                              *)
NoRollback ==
  [][\A p \in Procs, r \in Reloaders : Swap(p, r) => reload[r].val = Parse(file)]_vars

(* After a crash the next start finds a usable CA. *)
StartsAgain == [][\A p \in Procs : ~LoadCAFails(p)]_vars

(* A configuration that does not parse leaves the current one in force:    *)
(* memory changes to the defaults only when the file says so.              *)
DefaultsAreWritten ==
  [][\A p \in Procs : Up(p) /\ mem[p] # Default /\ mem'[p] = Default /\ ~UpdateBegin(p, Default)
       => file = Default]_vars
=============================================================================
