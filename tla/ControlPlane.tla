---------------------------- MODULE ControlPlane ----------------------------
(***************************************************************************)
(* The control plane: the server's store and HTTP handlers                 *)
(* (internal/server/store, httpapi, auth, imagebuild) and the laptops that *)
(* enroll with it and pull their launch policy (internal/cli/enroll.go,    *)
(* enrollment, policysync, policy, and the sync loop of internal/daemon).  *)
(*                                                                         *)
(* The store serialises its statements and transactions on one connection  *)
(* (SetMaxOpenConns(1)), so each is a step; a handler with several of them *)
(* takes several steps.  A signature is a flag that only an unaltered      *)
(* bundle carries, and a laptop knows the key of the server it enrolled    *)
(* with.  Organisations may also be those of different servers.  The ETag  *)
(* of a reply is a header, which nobody signs.                             *)
(***************************************************************************)
EXTENDS Integers, FiniteSets

CONSTANTS
  Orgs,        \* organisations
  Tokens,      \* enrollment tokens the admin mints
  Uses,        \* values of max_uses; 0 is unlimited
  Devices,     \* device ids
  Laptops,     \* installations of the desktop client
  Images,      \* image references
  Denylists,   \* the rest of a bundle
  SeedImage, SeedList,  \* the bundle of seedPolicyJSON
  Builds,      \* image builds, with the rows of the images table
  None,        \* nothing: no row, no file, no ETag
  MaxVersion   \* bound on policy versions

ASSUME ControlAssumption ==
  /\ Orgs # {}
  /\ Uses \subseteq Nat
  /\ SeedImage \in Images /\ SeedList \in Denylists
  /\ None \notin Nat \cup Orgs \cup Tokens \cup Devices
  /\ None \notin [org : Orgs, version : 0..MaxVersion, image : Images, deny : Denylists]
  /\ None \notin [org : Orgs, max : Uses, used : Nat, dead : BOOLEAN]
  /\ None \notin [org : Orgs, revoked : BOOLEAN, by : Tokens]
  /\ MaxVersion \in Nat

VARIABLES
  tokens,      \* enrollment_tokens: [org, max, used, dead], or None
  devices,     \* devices: [org, revoked, by], or None
  policy,      \* policies: [version, image, deny]; version 0 is the seed
  issued,      \* history: every bundle ever stored, with org and version
  build,       \* build[b]: the handler and row of an image build
  enrolled,    \* enrolled[l]: enrollment.json, as [dev, org], or None
  daemon,      \* daemon[l]: "down" | "loop" (syncs) | "deaf" (does not)
  cached,      \* cached[l]: cache/policy.json with the org it is from, or None
  etag,        \* etag[l]: cache/policy.etag, a version, or None
  sync,        \* sync[l]: the Sync in progress, with its request and reply
  misled,      \* history: laptops that got an old reply, or a wrong ETag
  calm         \* TRUE once nobody changes anything and nothing fails

serverVars == <<tokens, devices, policy, issued, build>>
laptopVars == <<enrolled, daemon, cached, etag, sync>>
vars == <<serverVars, laptopVars, misled, calm>>

Versions == 0..MaxVersion
Bundle == [org : Orgs, version : Versions, image : Images, deny : Denylists]
Seed == [version |-> 0, image |-> SeedImage, deny |-> SeedList]

TokenRow == [org : Orgs, max : Uses, used : Nat, dead : BOOLEAN]
DeviceRow == [org : Orgs, revoked : BOOLEAN, by : Tokens]
PolicyRow == [version : Versions, image : Images, deny : Denylists]
Build == [pc : {"new", "building", "ready", "read", "done"},
          row : {"none", "building", "ready", "failed"},
          org : Orgs, image : Images, deny : Denylists]
Sync == [pc : {"idle", "sent", "authed", "reply", "etag", "write"}, dev : Devices \cup {None},
         org : Orgs \cup {None}, etag : Versions \cup {None},
         bundle : Bundle \cup {None}, signed : BOOLEAN, tag : Versions \cup {None}]

Rest == [pc |-> "idle", dev |-> None, org |-> None, etag |-> None,
         bundle |-> None, signed |-> FALSE, tag |-> None]

(* GetPolicy and bundleWithVersion: what an org's bundle is now. *)
Current(o) == [org |-> o, version |-> policy[o].version,
               image |-> policy[o].image, deny |-> policy[o].deny]

Init ==
  /\ tokens = [t \in Tokens |-> None]
  /\ devices = [d \in Devices |-> None]
  /\ policy = [o \in Orgs |-> Seed]
  /\ issued = {[org |-> o, version |-> 0, image |-> SeedImage, deny |-> SeedList] :
                 o \in Orgs}
  /\ build = [b \in Builds |-> [pc |-> "new", row |-> "none",
                org |-> CHOOSE o \in Orgs : TRUE, image |-> SeedImage, deny |-> SeedList]]
  /\ enrolled = [l \in Laptops |-> None]
  /\ daemon = [l \in Laptops |-> "down"]
  /\ cached = [l \in Laptops |-> None]
  /\ etag = [l \in Laptops |-> None]
  /\ sync = [l \in Laptops |-> Rest]
  /\ misled = {}
  /\ calm = FALSE

-----------------------------------------------------------------------------
(* Tokens and devices.                                                     *)

MintToken(t, o, n) ==
  /\ ~calm
  /\ tokens[t] = None
  /\ tokens' = [tokens EXCEPT ![t] = [org |-> o, max |-> n, used |-> 0, dead |-> FALSE]]
  /\ UNCHANGED <<devices, policy, issued, build, laptopVars, misled, calm>>

(* A token expires, or Store.RevokeToken marks it. *)
TokenDies(t) ==
  /\ ~calm
  /\ tokens[t] # None /\ ~tokens[t].dead
  /\ tokens' = [tokens EXCEPT ![t].dead = TRUE]
  /\ UNCHANGED <<devices, policy, issued, build, laptopVars, misled, calm>>

(* Mutant: the limit is off by one. *)
UsableOnceMore(t) ==
  tokens[t] # None /\ ~tokens[t].dead
    /\ (tokens[t].max # 0 => tokens[t].used <= tokens[t].max)

(* EnrollDevice's conditions. *)
Usable(t) ==
  tokens[t] # None /\ ~tokens[t].dead
    /\ (tokens[t].max # 0 => tokens[t].used < tokens[t].max)

(* Mutant: the use is taken off a count that starts at zero. *)
EnrollCountsDown(t, d) ==
  /\ Usable(t)
  /\ devices[d] = None
  /\ devices' = [devices EXCEPT ![d] = [org |-> tokens[t].org, revoked |-> FALSE, by |-> t]]
  /\ tokens' = [tokens EXCEPT ![t].used = @ - 1]

(* EnrollDevice, one transaction: a row for the device, and the use. *)
EnrollDevice(t, d) ==
  /\ Usable(t)
  /\ devices[d] = None
  /\ devices' = [devices EXCEPT ![d] = [org |-> tokens[t].org, revoked |-> FALSE, by |-> t]]
  /\ tokens' = [tokens EXCEPT ![t].used = @ + 1]

(* `redactr enroll`: the request, and enrollment.json, which is replaced   *)
(* by a rename.  The caches of an earlier enrollment are left alone.       *)
Enroll(l, t, d) ==
  /\ ~calm
  /\ EnrollDevice(t, d)
  /\ enrolled' = [enrolled EXCEPT ![l] = [dev |-> d, org |-> tokens[t].org]]
  /\ UNCHANGED <<policy, issued, build, daemon, cached, etag, sync, misled, calm>>

(* The reply is lost: the server has the device, the laptop does not know. *)
EnrollReplyLost(t, d) ==
  /\ ~calm
  /\ EnrollDevice(t, d)
  /\ UNCHANGED <<policy, issued, build, laptopVars, misled, calm>>

RevokeDevice(d) ==
  /\ ~calm
  /\ devices[d] # None /\ ~devices[d].revoked
  /\ devices' = [devices EXCEPT ![d].revoked = TRUE]
  /\ UNCHANGED <<tokens, policy, issued, build, laptopVars, misled, calm>>

-----------------------------------------------------------------------------
(* Policies and images.                                                    *)

(* Mutant: an update keeps the version of the row it replaces. *)
PutPolicyKeepsVersion(o, image, deny) ==
  LET v == IF policy[o].version = 0 THEN 1 ELSE policy[o].version IN
  /\ v <= MaxVersion
  /\ policy' = [policy EXCEPT ![o] = [version |-> v, image |-> image, deny |-> deny]]
  /\ issued' = issued \cup {[org |-> o, version |-> v, image |-> image, deny |-> deny]}

(* Store.PutPolicy, one transaction. *)
PutPolicy(o, image, deny) ==
  LET v == policy[o].version + 1 IN
  /\ v <= MaxVersion
  /\ policy' = [policy EXCEPT ![o] = [version |-> v, image |-> image, deny |-> deny]]
  /\ issued' = issued \cup {[org |-> o, version |-> v, image |-> image, deny |-> deny]}

(* PUT /admin/orgs/{id}/policy *)
AdminPut(o, image, deny) ==
  /\ ~calm
  /\ PutPolicy(o, image, deny)
  /\ UNCHANGED <<tokens, devices, build, laptopVars, misled, calm>>

(* POST /admin/orgs/{id}/images: the row, the build, its result ... *)
BuildBegin(b, o, image) ==
  /\ ~calm
  /\ build[b].pc = "new"
  /\ build' = [build EXCEPT ![b] = [@ EXCEPT !.pc = "building", !.row = "building",
                                             !.org = o, !.image = image]]
  /\ UNCHANGED <<tokens, devices, policy, issued, laptopVars, misled, calm>>

BuildFails(b) ==
  /\ build[b].pc = "building"
  /\ build' = [build EXCEPT ![b].pc = "done", ![b].row = "failed"]
  /\ UNCHANGED <<tokens, devices, policy, issued, laptopVars, misled, calm>>

BuildReady(b) ==
  /\ build[b].pc = "building"
  /\ build' = [build EXCEPT ![b].pc = "ready", ![b].row = "ready"]
  /\ UNCHANGED <<tokens, devices, policy, issued, laptopVars, misled, calm>>

(* ... and the pin: the policy is read, then written back with the image. *)
BuildRead(b) ==
  /\ build[b].pc = "ready"
  /\ build' = [build EXCEPT ![b].pc = "read", ![b].deny = policy[build[b].org].deny]
  /\ UNCHANGED <<tokens, devices, policy, issued, laptopVars, misled, calm>>

BuildPin(b) ==
  /\ build[b].pc = "read"
  /\ PutPolicy(build[b].org, build[b].image, build[b].deny)
  /\ build' = [build EXCEPT ![b].pc = "done"]
  /\ UNCHANGED <<tokens, devices, laptopVars, misled, calm>>

(* The server's process ends: handlers are gone, the database stays. *)
ServerCrash ==
  /\ ~calm
  /\ \E b \in Builds : build[b].pc \in {"building", "ready", "read"}
  /\ build' = [b \in Builds |-> IF build[b].pc = "new" THEN build[b]
                                ELSE [build[b] EXCEPT !.pc = "done"]]
  /\ UNCHANGED <<tokens, devices, policy, issued, laptopVars, misled, calm>>

-----------------------------------------------------------------------------
(* The laptop.                                                             *)

(* Daemon.Start: the loop exists only if enrollment.json does by then. *)
DaemonStart(l) ==
  /\ daemon[l] = "down"
  /\ daemon' = [daemon EXCEPT ![l] = IF enrolled[l] = None THEN "deaf" ELSE "loop"]
  /\ UNCHANGED <<serverVars, enrolled, cached, etag, sync, misled, calm>>

(* The daemon ends, also in the middle of a Sync. *)
DaemonEnds(l) ==
  /\ ~calm
  /\ daemon[l] # "down"
  /\ daemon' = [daemon EXCEPT ![l] = "down"]
  /\ sync' = [sync EXCEPT ![l] = Rest]
  /\ UNCHANGED <<serverVars, enrolled, cached, etag, misled, calm>>

(* A tick: Sync loads the enrollment and the ETag, and sends its request. *)
SyncSend(l) ==
  /\ daemon[l] = "loop"
  /\ sync[l].pc = "idle"
  /\ enrolled[l] # None
  /\ sync' = [sync EXCEPT ![l] = [Rest EXCEPT !.pc = "sent", !.dev = enrolled[l].dev,
                                   !.org = enrolled[l].org, !.etag = etag[l]]]
  /\ UNCHANGED <<serverVars, enrolled, daemon, cached, etag, misled, calm>>

(* RequireDevice: the device exists, is not revoked, and the token is its. *)
Authorized(d, o) == devices[d] # None /\ ~devices[d].revoked /\ devices[d].org = o

ServerAccepts(l) ==
  /\ sync[l].pc = "sent"
  /\ Authorized(sync[l].dev, sync[l].org)
  /\ sync' = [sync EXCEPT ![l].pc = "authed"]
  /\ UNCHANGED <<serverVars, enrolled, daemon, cached, etag, misled, calm>>

ServerRejects(l) ==
  /\ sync[l].pc = "sent"
  /\ ~Authorized(sync[l].dev, sync[l].org)
  /\ sync' = [sync EXCEPT ![l] = Rest]
  /\ UNCHANGED <<serverVars, enrolled, daemon, cached, etag, misled, calm>>

(* handleGetPolicy: 304 if the ETag is the current version's, ... *)
NotModified(l) ==
  /\ sync[l].pc = "authed"
  /\ sync[l].etag = policy[sync[l].org].version
  /\ sync' = [sync EXCEPT ![l] = Rest]
  /\ UNCHANGED <<serverVars, enrolled, daemon, cached, etag, misled, calm>>

(* A signed bundle with its version as the ETag. *)
Reply(l, b) ==
  sync' = [sync EXCEPT ![l] = [sync[l] EXCEPT !.pc = "reply", !.bundle = b,
                                              !.signed = TRUE, !.tag = b.version]]

(* Mutant: the ETag is written before the bundle is verified and saved. *)
EtagFirst(l) ==
  /\ sync[l].pc = "authed"
  /\ sync[l].etag # policy[sync[l].org].version
  /\ etag' = [etag EXCEPT ![l] = policy[sync[l].org].version]
  /\ Reply(l, Current(sync[l].org))
  /\ UNCHANGED <<serverVars, enrolled, daemon, cached, misled, calm>>

(* Mutant: a read of the row that fails is answered with the seed. *)
SendSeedOnError(l) ==
  /\ sync[l].pc = "authed"
  /\ sync[l].etag # policy[sync[l].org].version
  /\ \E b \in {Current(sync[l].org), [org |-> sync[l].org, version |-> 0,
                                      image |-> SeedImage, deny |-> SeedList]} :
       Reply(l, b)
  /\ UNCHANGED <<serverVars, enrolled, daemon, cached, etag, misled, calm>>

(* ... and the signed bundle otherwise. *)
SendBundle(l) ==
  /\ sync[l].pc = "authed"
  /\ sync[l].etag # policy[sync[l].org].version
  /\ Reply(l, Current(sync[l].org))
  /\ UNCHANGED <<serverVars, enrolled, daemon, cached, etag, misled, calm>>

(* What is between them alters the bundle, and the signature is void, ... *)
Tamper(l, image) ==
  /\ ~calm
  /\ sync[l].pc = "reply"
  /\ image # sync[l].bundle.image
  /\ sync' = [sync EXCEPT ![l].bundle.image = image, ![l].signed = FALSE]
  /\ UNCHANGED <<serverVars, enrolled, daemon, cached, etag, misled, calm>>

(* ... or answers with what the server once sent and signed, ... *)
Replay(l, b) ==
  /\ ~calm
  /\ sync[l].pc \in {"sent", "authed", "reply"}
  /\ b \in issued
  /\ Reply(l, b)
  /\ misled' = misled \cup {l}
  /\ UNCHANGED <<serverVars, enrolled, daemon, cached, etag, calm>>

(* ... or changes or drops the header. *)
ChangeTag(l, v) ==
  /\ ~calm
  /\ sync[l].pc = "reply"
  /\ v # sync[l].tag
  /\ sync' = [sync EXCEPT ![l] = [sync[l] EXCEPT !.tag = v]]
  /\ misled' = misled \cup {l}
  /\ UNCHANGED <<serverVars, enrolled, daemon, cached, etag, calm>>

(* After the bundle comes the ETag, if the reply has one. *)
Saved(l) ==
  sync' = [sync EXCEPT ![l] = IF sync[l].tag = None THEN Rest
                              ELSE [sync[l] EXCEPT !.pc = "etag"]]

(* Mutant: the bundle is cached without a look at its signature. *)
SaveUnverified(l) ==
  /\ sync[l].pc = "reply"
  /\ cached' = [cached EXCEPT ![l] = sync[l].bundle]
  /\ Saved(l)
  /\ UNCHANGED <<serverVars, enrolled, daemon, etag, misled, calm>>

(* Verify, then policy.Save, which replaces the file by a rename: whatever *)
(* was signed is saved, no version is compared ...                         *)
Save(l) ==
  /\ sync[l].pc = "reply"
  /\ sync[l].signed
  /\ cached' = [cached EXCEPT ![l] = sync[l].bundle]
  /\ Saved(l)
  /\ UNCHANGED <<serverVars, enrolled, daemon, etag, misled, calm>>

(* ... and the header after it, by WriteFile: truncated, then written. *)
TruncateEtag(l) ==
  /\ sync[l].pc = "etag"
  /\ etag' = [etag EXCEPT ![l] = None]
  /\ sync' = [sync EXCEPT ![l].pc = "write"]
  /\ UNCHANGED <<serverVars, enrolled, daemon, cached, misled, calm>>

SaveEtag(l) ==
  /\ sync[l].pc = "write"
  /\ etag' = [etag EXCEPT ![l] = sync[l].tag]
  /\ sync' = [sync EXCEPT ![l] = Rest]
  /\ UNCHANGED <<serverVars, enrolled, daemon, cached, misled, calm>>

(* A failure at any point (unreachable, timeout, signature, disk): Sync    *)
(* returns; its caller logs at most, and the next tick tries again.        *)
SyncFails(l) ==
  /\ \/ ~calm /\ sync[l].pc # "idle"
     \/ sync[l].pc = "reply" /\ ~sync[l].signed
  /\ sync' = [sync EXCEPT ![l] = Rest]
  /\ UNCHANGED <<serverVars, enrolled, daemon, cached, etag, misled, calm>>

CalmsDown ==
  /\ ~calm
  /\ calm' = TRUE
  /\ UNCHANGED <<serverVars, laptopVars, misled>>

ServerStep(b) ==
  \/ \E o \in Orgs, i \in Images : BuildBegin(b, o, i)
  \/ BuildFails(b) \/ BuildReady(b) \/ BuildRead(b) \/ BuildPin(b)

SyncStep(l) ==
  \/ SyncSend(l) \/ ServerAccepts(l) \/ ServerRejects(l) \/ NotModified(l)
  \/ SendBundle(l) \/ Save(l) \/ TruncateEtag(l) \/ SaveEtag(l)
  \/ SyncFails(l)

Next ==
  \/ \E t \in Tokens : \/ \E o \in Orgs, n \in Uses : MintToken(t, o, n)
                       \/ TokenDies(t)
                       \/ \E d \in Devices : EnrollReplyLost(t, d)
                       \/ \E d \in Devices, l \in Laptops : Enroll(l, t, d)
  \/ \E d \in Devices : RevokeDevice(d)
  \/ \E o \in Orgs, i \in Images, n \in Denylists : AdminPut(o, i, n)
  \/ \E b \in Builds : ServerStep(b)
  \/ ServerCrash
  \/ \E l \in Laptops : \/ DaemonStart(l) \/ DaemonEnds(l) \/ SyncStep(l)
                        \/ \E i \in Images : Tamper(l, i)
                        \/ \E b \in issued : Replay(l, b)
                        \/ \E v \in Versions \cup {None} : ChangeTag(l, v)
  \/ CalmsDown

Spec == Init /\ [][Next]_vars

(* The ticker of policySyncLoop fires, a request is served and its reply   *)
(* processed.                                                              *)
FairSpec == Spec /\ \A l \in Laptops : WF_vars(SyncStep(l))

-----------------------------------------------------------------------------
(* Rows, files, requests and replies are well formed; counts are naturals  *)
(* and versions stay within their bound.                                   *)
TypeOK ==
  /\ tokens \in [Tokens -> TokenRow \cup {None}]
  /\ devices \in [Devices -> DeviceRow \cup {None}]
  /\ policy \in [Orgs -> PolicyRow]
  /\ issued \subseteq Bundle
  /\ build \in [Builds -> Build]
  /\ enrolled \in [Laptops -> [dev : Devices, org : Orgs] \cup {None}]
  /\ daemon \in [Laptops -> {"down", "loop", "deaf"}]
  /\ cached \in [Laptops -> Bundle \cup {None}]
  /\ etag \in [Laptops -> Versions \cup {None}]
  /\ sync \in [Laptops -> Sync]
  /\ misled \subseteq Laptops
  /\ calm \in BOOLEAN

(* used_count is the number of devices a token enrolled, and a token with  *)
(* a limit never enrolls more: also when replies are lost and enrollments  *)
(* run concurrently.                                                       *)
TokenLimit ==
  \A t \in Tokens : tokens[t] # None =>
    LET by == {d \in Devices : devices[d] # None /\ devices[d].by = t} IN
    /\ tokens[t].used = Cardinality(by)
    /\ tokens[t].max # 0 => Cardinality(by) <= tokens[t].max

(* A version names one bundle of its organisation for ever: admin updates  *)
(* and image pins that run concurrently never share a version, so an ETag  *)
(* identifies content.                                                     *)
VersionNamesBundle ==
  \A x, y \in issued : x.org = y.org /\ x.version = y.version => x = y

(* What a laptop launches from is a bundle the server stored: altered ones *)
(* never reach the cache, whatever fails between the steps of a Sync and   *)
(* whatever else happens to replies.                                       *)
CachedIsIssued == \A l \in Laptops : cached[l] # None => cached[l] \in issued

(* The cache of a laptop that was never served an old reply does not go    *)
(* back to an older bundle of the same organisation: a Sync takes what it  *)
(* gets as newest, so this rests on requests that overlap admin updates    *)
(* and image pins being answered from the table, and on one Sync at a time.*)
CacheMonotone ==
  [][\A l \in Laptops \ misled' :
       cached[l] # None /\ cached'[l].org = cached[l].org =>
         cached'[l].version >= cached[l].version]_vars

(* When the server answers 304 to a laptop that has only ever been of one  *)
(* organisation, and whose replies were the server's, what it keeps is the *)
(* current bundle: no crash between the write of the bundle and that of    *)
(* the ETag, or within the latter, pairs an ETag with an older bundle.     *)
NotModifiedIsCurrent ==
  [][\A l \in Laptops \ misled :
       NotModified(l) => cached[l] = Current(sync[l].org)]_vars

(* Pinning a built image changes the image of the policy and nothing else. *)
PinKeepsRest ==
  [][\A b \in Builds : BuildPin(b) =>
       policy'[build[b].org].deny = policy[build[b].org].deny]_vars

(* Once the environment is calm, a laptop whose daemon syncs, whose device *)
(* is not revoked and that was not misled gets the policy of its           *)
(* organisation.                                                           *)
Served(l) ==
  daemon[l] = "loop" /\ enrolled[l] # None
    /\ Authorized(enrolled[l].dev, enrolled[l].org)

PolicyArrives ==
  \A l \in Laptops :
    (calm /\ Served(l) /\ l \notin misled) ~>
      (enrolled[l] # None /\ cached[l] = Current(enrolled[l].org))

Feed == INSTANCE PolicyFeed WITH Bundles <- Bundle, log <- issued, copy <- cached

(* Store, handlers, requests and the files of the laptops implement the    *)
(* feed: whatever is lost, altered, replayed, retried or interrupted, and  *)
(* however admin updates, image pins and syncs interleave.                 *)
ImplementsFeed == Feed!Spec
=============================================================================
