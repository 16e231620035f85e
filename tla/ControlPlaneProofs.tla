------------------------- MODULE ControlPlaneProofs -------------------------
(***************************************************************************)
(* Proofs about policy distribution in ControlPlane, for any number of     *)
(* organisations, tokens, devices, laptops and builds, and any bound on    *)
(* the versions.                                                           *)
(***************************************************************************)
EXTENDS ControlPlane, FiniteSetTheorems, TLAPS

(* What a Sync in progress carries. *)
SyncCarries ==
  \A l \in Laptops :
    /\ sync[l].pc # "idle" => sync[l].org \in Orgs
    /\ sync[l].pc \in {"reply", "etag", "write"} => sync[l].bundle \in Bundle

(* What a laptop is told, and by whom. *)
Meddles(l) ==
  \/ \E i \in Images : Tamper(l, i)
  \/ \E b \in issued : Replay(l, b)
  \/ \E v \in Versions \cup {None} : ChangeTag(l, v)

TypeInv == TypeOK /\ SyncCarries

(* The steps that leave the laptops alone. *)
ServerSide ==
  \/ \E t \in Tokens : \/ \E o \in Orgs, n \in Uses : MintToken(t, o, n)
                       \/ TokenDies(t)
                       \/ \E d \in Devices : EnrollReplyLost(t, d)
  \/ \E d \in Devices : RevokeDevice(d)
  \/ \E o \in Orgs, i \in Images, n \in Denylists : AdminPut(o, i, n)
  \/ \E b \in Builds : ServerStep(b)
  \/ ServerCrash

(* The steps of one laptop; all but Enroll leave the server alone. *)
LaptopSide(l) ==
  \/ \E t \in Tokens, d \in Devices : Enroll(l, t, d)
  \/ DaemonStart(l) \/ DaemonEnds(l) \/ SyncStep(l)
  \/ Meddles(l)

(* A step is one of the server, of one laptop, or the calm. *)
LEMMA Sides ==
  Next <=> ServerSide \/ (\E l \in Laptops : LaptopSide(l)) \/ CalmsDown
BY DEF Next, ServerSide, LaptopSide, Meddles

(* What GetPolicy returns is a bundle. *)
LEMMA CurrentType ==
  ASSUME policy \in [Orgs -> PolicyRow], NEW o \in Orgs
  PROVE  Current(o) \in Bundle
BY DEF Current, PolicyRow, Bundle

(* A bundle is not None. *)
LEMMA BundleIsSome == None \notin Bundle
BY ControlAssumption DEF Bundle, Versions

(* PutPolicy keeps the types of the table. *)
LEMMA PutPolicyTypes ==
  ASSUME policy \in [Orgs -> PolicyRow], issued \subseteq Bundle,
         NEW o \in Orgs, NEW i \in Images, NEW n \in Denylists, PutPolicy(o, i, n)
  PROVE  policy' \in [Orgs -> PolicyRow] /\ issued' \subseteq Bundle
BY ControlAssumption DEF PutPolicy, PolicyRow, Bundle, Versions

(* EnrollDevice keeps the types of its two tables. *)
LEMMA EnrollDeviceTypes ==
  ASSUME tokens \in [Tokens -> TokenRow \cup {None}],
         devices \in [Devices -> DeviceRow \cup {None}],
         NEW t \in Tokens, NEW d \in Devices, EnrollDevice(t, d)
  PROVE  /\ tokens' \in [Tokens -> TokenRow \cup {None}]
         /\ devices' \in [Devices -> DeviceRow \cup {None}]
         /\ tokens[t].org \in Orgs
<1>1. tokens[t] \in TokenRow
  BY DEF EnrollDevice, Usable
<1>2. [tokens[t] EXCEPT !.used = @ + 1] \in TokenRow
  BY <1>1 DEF TokenRow
<1>3. tokens' = [tokens EXCEPT ![t] = [tokens[t] EXCEPT !.used = @ + 1]]
  BY DEF EnrollDevice
<1>4. tokens[t].org \in Orgs
  BY <1>1 DEF TokenRow
<1>5. [org |-> tokens[t].org, revoked |-> FALSE, by |-> t] \in DeviceRow
  BY <1>4 DEF DeviceRow
<1>6. devices' = [devices EXCEPT ![d] = [org |-> tokens[t].org, revoked |-> FALSE, by |-> t]]
  BY DEF EnrollDevice
<1> QED
  BY <1>2, <1>3, <1>4, <1>5, <1>6

(* Each server step keeps the types of the tables. *)
LEMMA ServerTypes ==
  ASSUME TypeInv, ServerSide
  PROVE  TypeInv'
<1> USE DEF TypeInv, TypeOK, SyncCarries, laptopVars
<1>1. ASSUME NEW t \in Tokens, NEW o \in Orgs, NEW n \in Uses, MintToken(t, o, n)
      PROVE  TypeInv'
  BY <1>1 DEF MintToken, TokenRow
<1>2. ASSUME NEW t \in Tokens, TokenDies(t) PROVE TypeInv'
  <2>1. [tokens[t] EXCEPT !.dead = TRUE] \in TokenRow
    BY <1>2 DEF TokenDies, TokenRow
  <2>2. tokens' = [tokens EXCEPT ![t] = [tokens[t] EXCEPT !.dead = TRUE]]
    BY <1>2 DEF TokenDies
  <2> QED BY <1>2, <2>1, <2>2 DEF TokenDies
<1>3. ASSUME NEW t \in Tokens, NEW d \in Devices, EnrollReplyLost(t, d) PROVE TypeInv'
  BY <1>3, EnrollDeviceTypes DEF EnrollReplyLost
<1>4. ASSUME NEW d \in Devices, RevokeDevice(d) PROVE TypeInv'
  <2>1. [devices[d] EXCEPT !.revoked = TRUE] \in DeviceRow
    BY <1>4 DEF RevokeDevice, DeviceRow
  <2>2. devices' = [devices EXCEPT ![d] = [devices[d] EXCEPT !.revoked = TRUE]]
    BY <1>4 DEF RevokeDevice
  <2> QED BY <1>4, <2>1, <2>2 DEF RevokeDevice
<1>5. ASSUME NEW o \in Orgs, NEW i \in Images, NEW n \in Denylists, AdminPut(o, i, n)
      PROVE  TypeInv'
  BY <1>5, PutPolicyTypes DEF AdminPut
<1>6. ASSUME NEW b \in Builds, ServerStep(b) PROVE TypeInv'
  <2>1. CASE \E o \in Orgs, i \in Images : BuildBegin(b, o, i)
    BY <2>1, ZenonT(30) DEF BuildBegin, Build
  <2>2. CASE BuildFails(b) \/ BuildReady(b)
    <3>1. build' \in [Builds -> Build]
      <4>0. build[b] \in Build
        OBVIOUS
      <4>1. CASE BuildFails(b)
        <5>1. [build[b] EXCEPT !.pc = "done", !.row = "failed"] \in Build
          BY <4>0 DEF Build
        <5>2. build' = [build EXCEPT ![b] = [build[b] EXCEPT !.pc = "done", !.row = "failed"]]
          BY <4>1 DEF BuildFails
        <5> QED BY <5>1, <5>2
      <4>2. CASE BuildReady(b)
        <5>1. [build[b] EXCEPT !.pc = "ready", !.row = "ready"] \in Build
          BY <4>0 DEF Build
        <5>2. build' = [build EXCEPT ![b] = [build[b] EXCEPT !.pc = "ready", !.row = "ready"]]
          BY <4>2 DEF BuildReady
        <5> QED BY <5>1, <5>2
      <4> QED BY <2>2, <4>1, <4>2
    <3> QED BY <2>2, <3>1 DEF BuildFails, BuildReady
  <2>3. CASE BuildRead(b)
    <3>1. policy[build[b].org].deny \in Denylists
      BY DEF Build, PolicyRow
    <3> QED BY <2>3, <3>1, ZenonT(30) DEF BuildRead, Build
  <2>4. CASE BuildPin(b)
    <3>1. build[b].org \in Orgs /\ build[b].image \in Images /\ build[b].deny \in Denylists
      BY DEF Build
    <3>2. policy' \in [Orgs -> PolicyRow] /\ issued' \subseteq Bundle
      BY <2>4, <3>1, PutPolicyTypes DEF BuildPin
    <3>3. build' \in [Builds -> Build]
      BY <2>4 DEF BuildPin, Build
    <3> QED BY <2>4, <3>2, <3>3 DEF BuildPin
  <2> QED BY <1>6, <2>1, <2>2, <2>3, <2>4 DEF ServerStep
<1>7. CASE ServerCrash
  BY <1>7 DEF ServerCrash, Build
<1> QED
  BY <1>1, <1>2, <1>3, <1>4, <1>5, <1>6, <1>7 DEF ServerSide

(* Each laptop step keeps the types of its files and of its Sync. *)
LEMMA RestType == Rest \in Sync /\ Rest.pc = "idle"
BY DEF Rest, Sync

(* A laptop step keeps every type and what the Sync carries. *)
LEMMA LaptopTypes ==
  ASSUME TypeInv, NEW l \in Laptops, LaptopSide(l)
  PROVE  TypeInv'
<1> USE DEF TypeInv, TypeOK, SyncCarries, serverVars
<1>0. sync[l] \in Sync
  OBVIOUS
\* It is enough that the new Sync of l is typed and carries what it must.
<1>q. ASSUME NEW s \in Sync, sync' = [sync EXCEPT ![l] = s],
             s.pc # "idle" => s.org \in Orgs,
             s.pc \in {"reply", "etag", "write"} => s.bundle \in Bundle
      PROVE  sync' \in [Laptops -> Sync] /\ SyncCarries'
  BY <1>q
<1>1. ASSUME NEW t \in Tokens, NEW d \in Devices, Enroll(l, t, d) PROVE TypeInv'
  <2>1. EnrollDevice(t, d)
    BY <1>1 DEF Enroll
  <2> QED
    BY <1>1, <2>1, EnrollDeviceTypes DEF Enroll
<1>2. CASE DaemonStart(l)
  BY <1>2 DEF DaemonStart
<1>3. CASE DaemonEnds(l) \/ ServerRejects(l) \/ NotModified(l) \/ SyncFails(l)
  <2>1. sync' = [sync EXCEPT ![l] = Rest]
    BY <1>3 DEF DaemonEnds, ServerRejects, NotModified, SyncFails
  <2>2. sync' \in [Laptops -> Sync] /\ SyncCarries'
    BY <1>q, <2>1, RestType
  <2> QED
    BY <1>3, <2>2 DEF DaemonEnds, ServerRejects, NotModified, SyncFails
<1>4. CASE SyncSend(l)
  <2> DEFINE s == [Rest EXCEPT !.pc = "sent", !.dev = enrolled[l].dev,
                               !.org = enrolled[l].org, !.etag = etag[l]]
  <2>1. s \in Sync /\ s.org \in Orgs /\ s.pc = "sent"
    BY <1>4 DEF SyncSend, Rest, Sync
  <2>2. sync' = [sync EXCEPT ![l] = s]
    BY <1>4 DEF SyncSend
  <2>3. sync' \in [Laptops -> Sync] /\ SyncCarries'
    BY <1>q, <2>1, <2>2
  <2> QED BY <1>4, <2>3 DEF SyncSend
<1>5. CASE ServerAccepts(l)
  <2> DEFINE s == [sync[l] EXCEPT !.pc = "authed"]
  <2>1. s \in Sync /\ s.org = sync[l].org /\ s.pc = "authed"
    BY <1>0 DEF Sync
  <2>2. sync' = [sync EXCEPT ![l] = s]
    BY <1>5 DEF ServerAccepts
  <2>3. sync' \in [Laptops -> Sync] /\ SyncCarries'
    BY <1>5, <1>q, <2>1, <2>2 DEF ServerAccepts
  <2> QED BY <1>5, <2>3 DEF ServerAccepts
<1>r. ASSUME NEW b \in Bundle, Reply(l, b), sync[l].pc # "idle"
      PROVE  sync' \in [Laptops -> Sync] /\ SyncCarries'
  <2> DEFINE s == [sync[l] EXCEPT !.pc = "reply", !.bundle = b, !.signed = TRUE,
                                  !.tag = b.version]
  <2>1. b.version \in Versions
    BY DEF Bundle
  <2>2. s \in Sync /\ s.org = sync[l].org /\ s.bundle = b /\ s.pc = "reply"
    BY <1>0, <2>1 DEF Sync
  <2>3. sync' = [sync EXCEPT ![l] = s] /\ sync[l].org \in Orgs
    BY <1>r DEF Reply
  <2> QED BY <1>q, <2>2, <2>3
<1>6. CASE SendBundle(l)
  <2>1. Current(sync[l].org) \in Bundle
    BY <1>6, CurrentType DEF SendBundle
  <2>2. sync' \in [Laptops -> Sync] /\ SyncCarries'
    BY <1>6, <1>r, <2>1 DEF SendBundle
  <2> QED BY <1>6, <2>2 DEF SendBundle
<1>10. ASSUME NEW b \in issued, Replay(l, b) PROVE TypeInv'
  <2>1. sync' \in [Laptops -> Sync] /\ SyncCarries'
    BY <1>10, <1>r DEF Replay
  <2> QED BY <1>10, <2>1 DEF Replay
<1>11. ASSUME NEW v \in Versions \cup {None}, ChangeTag(l, v) PROVE TypeInv'
  <2> DEFINE s == [sync[l] EXCEPT !.tag = v]
  <2>1. s \in Sync /\ s.org = sync[l].org /\ s.bundle = sync[l].bundle /\ s.pc = sync[l].pc
    BY <1>0 DEF Sync
  <2>2. sync' = [sync EXCEPT ![l] = s]
    BY <1>11 DEF ChangeTag
  <2>3. sync' \in [Laptops -> Sync] /\ SyncCarries'
    BY <1>q, <2>1, <2>2
  <2> QED BY <1>11, <2>3 DEF ChangeTag
<1>7. ASSUME NEW i \in Images, Tamper(l, i) PROVE TypeInv'
  <2>0. sync[l].bundle \in Bundle /\ sync[l].org \in Orgs
    BY <1>7 DEF Tamper
  <2> DEFINE b == [sync[l].bundle EXCEPT !.image = i]
             s == [sync[l] EXCEPT !.bundle = b, !.signed = FALSE]
  <2>1. b \in Bundle
    BY <2>0 DEF Bundle
  <2>2. s \in Sync /\ s.org = sync[l].org /\ s.bundle \in Bundle
    BY <1>0, <2>1 DEF Sync
  <2>3. sync' = [sync EXCEPT ![l] = s]
    BY <1>7 DEF Tamper
  <2>4. sync' \in [Laptops -> Sync] /\ SyncCarries'
    BY <1>q, <2>0, <2>2, <2>3
  <2> QED BY <1>7, <2>4 DEF Tamper
<1>8. CASE Save(l) \/ TruncateEtag(l)
  <2>0. sync[l].bundle \in Bundle /\ sync[l].org \in Orgs
    BY <1>8 DEF Save, TruncateEtag
  <2>1. \/ sync' = [sync EXCEPT ![l] = Rest]
        \/ \E pc \in {"etag", "write"} : sync' = [sync EXCEPT ![l] = [sync[l] EXCEPT !.pc = pc]]
    BY <1>8 DEF Save, Saved, TruncateEtag
  <2>2. ASSUME NEW pc \in {"etag", "write"},
               sync' = [sync EXCEPT ![l] = [sync[l] EXCEPT !.pc = pc]]
        PROVE  sync' \in [Laptops -> Sync] /\ SyncCarries'
    <3> DEFINE s == [sync[l] EXCEPT !.pc = pc]
    <3>1. s \in Sync /\ s.org = sync[l].org /\ s.bundle = sync[l].bundle
      BY <1>0 DEF Sync
    <3> QED BY <1>q, <2>0, <2>2, <3>1
  <2>3. sync' \in [Laptops -> Sync] /\ SyncCarries'
    BY <1>q, <2>1, <2>2, RestType
  <2> QED BY <1>8, <2>0, <2>3 DEF Save, TruncateEtag
<1>9. CASE SaveEtag(l)
  <2>1. sync[l].tag \in Versions \cup {None}
    BY <1>0 DEF Sync
  <2>2. sync' \in [Laptops -> Sync] /\ SyncCarries'
    BY <1>9, <1>q, RestType DEF SaveEtag
  <2> QED BY <1>9, <2>1, <2>2 DEF SaveEtag
<1> QED
  BY <1>1, <1>2, <1>3, <1>4, <1>5, <1>6, <1>7, <1>8, <1>9, <1>10, <1>11
     DEF LaptopSide, SyncStep, Meddles

(* TypeOK and SyncCarries hold together. *)
LEMMA TypesInvariant == Spec => []TypeInv
<1>1. Init => TypeInv
  <2> SUFFICES ASSUME Init PROVE TypeInv
    OBVIOUS
  <2>1. policy \in [Orgs -> PolicyRow] /\ issued \subseteq Bundle
    BY ControlAssumption DEF Init, Seed, PolicyRow, Bundle, Versions
  <2>2. build \in [Builds -> Build]
    BY ControlAssumption DEF Init, Build
  <2> QED
    BY <2>1, <2>2, RestType DEF Init, TypeInv, TypeOK, SyncCarries
<1>2. TypeInv /\ [Next]_vars => TypeInv'
  <2>1. TypeInv /\ (CalmsDown \/ UNCHANGED vars) => TypeInv'
    BY DEF TypeInv, TypeOK, SyncCarries, CalmsDown, vars, serverVars, laptopVars
  <2> QED BY <2>1, ServerTypes, LaptopTypes, Sides
<1> QED BY <1>1, <1>2, PTL DEF Spec

(* Every reachable state is well typed: rows, files, requests and replies. *)
THEOREM ControlTypes == Spec => []TypeOK
<1>1. TypeInv => TypeOK
  BY DEF TypeInv
<1> QED BY <1>1, TypesInvariant, PTL

-----------------------------------------------------------------------------
(* Bundles.  A put makes the version of its organisation one more than any *)
(* version it has had, so that it names a new bundle.                      *)

PolicyInv ==
  /\ \A x \in issued : x.version <= policy[x.org].version
  /\ \A o \in Orgs : Current(o) \in issued
  /\ VersionNamesBundle

(* PutPolicy issues a bundle under a version its org never had. *)
LEMMA PutPolicyKeeps ==
  ASSUME TypeOK, PolicyInv, NEW o \in Orgs, NEW i \in Images, NEW n \in Denylists,
         PutPolicy(o, i, n)
  PROVE  /\ PolicyInv'
         /\ issued \subseteq issued'
<1> DEFINE v == policy[o].version + 1
           new == [org |-> o, version |-> v, image |-> i, deny |-> n]
<1>1. /\ policy' = [policy EXCEPT ![o] = [version |-> v, image |-> i, deny |-> n]]
      /\ issued' = issued \cup {new}
  BY DEF PutPolicy
<1>2. /\ policy \in [Orgs -> PolicyRow]
      /\ \A x \in issued : x \in Bundle /\ x.org \in Orgs /\ x.version \in Nat
      /\ policy[o].version \in Nat
  BY ControlAssumption DEF TypeOK, PolicyRow, Bundle, Versions
<1>3. \A x \in issued' : x.version <= policy'[x.org].version
  <2>1. ASSUME NEW x \in issued PROVE x.version <= policy'[x.org].version
    <3>1. CASE x.org = o
      BY <1>1, <1>2, <3>1 DEF PolicyInv
    <3>2. CASE x.org # o
      BY <1>1, <1>2, <3>2 DEF PolicyInv
    <3> QED BY <3>1, <3>2
  <2>2. new.version <= policy'[new.org].version
    BY <1>1, <1>2
  <2> QED BY <1>1, <2>1, <2>2
<1>4. ASSUME NEW p \in Orgs PROVE Current(p)' \in issued'
  <2>1. CASE p = o
    BY <1>1, <1>2, <2>1 DEF Current
  <2>2. CASE p # o
    <3>1. policy'[p] = policy[p]
      BY <1>1, <1>2, <2>2
    <3> QED BY <1>1, <3>1 DEF Current, PolicyInv
  <2> QED BY <2>1, <2>2
<1>5. VersionNamesBundle'
  <2>1. \A x \in issued : x.org = o => x.version # v
    BY <1>2 DEF PolicyInv
  <2> QED BY <1>1, <2>1 DEF PolicyInv, VersionNamesBundle
<1> QED BY <1>1, <1>3, <1>4, <1>5 DEF PolicyInv

(* Every other step leaves the policies alone. *)
LEMMA PolicySteps ==
  ASSUME TypeOK, [Next]_vars
  PROVE  \/ UNCHANGED <<policy, issued>>
         \/ /\ \E o \in Orgs, i \in Images, n \in Denylists : PutPolicy(o, i, n)
            /\ UNCHANGED <<laptopVars, misled>>
<1>1. ASSUME NEW b \in Builds, BuildPin(b)
      PROVE  /\ \E o \in Orgs, i \in Images, n \in Denylists : PutPolicy(o, i, n)
             /\ UNCHANGED <<laptopVars, misled>>
  <2>1. build[b].org \in Orgs /\ build[b].image \in Images /\ build[b].deny \in Denylists
    BY DEF TypeOK, Build
  <2> QED BY <1>1, <2>1 DEF BuildPin
<1>2. ASSUME NEW b \in Builds, ServerStep(b), ~BuildPin(b)
      PROVE  UNCHANGED <<policy, issued>>
  BY <1>2 DEF ServerStep, BuildBegin, BuildFails, BuildReady, BuildRead
<1>3. ASSUME NEW o \in Orgs, NEW i \in Images, NEW n \in Denylists, AdminPut(o, i, n)
      PROVE  PutPolicy(o, i, n) /\ UNCHANGED <<laptopVars, misled>>
  BY <1>3 DEF AdminPut
<1>4. ASSUME NEW l \in Laptops, LaptopSide(l) PROVE UNCHANGED <<policy, issued>>
  BY <1>4 DEF LaptopSide, Enroll, DaemonStart, DaemonEnds, SyncStep, SyncSend, ServerAccepts,
       ServerRejects, NotModified, SendBundle, Save, TruncateEtag, SaveEtag, SyncFails,
       Meddles, Tamper, Replay, ChangeTag, serverVars
<1>5. CASE CalmsDown \/ UNCHANGED vars
  BY <1>5 DEF CalmsDown, vars, serverVars
<1>6. CASE ServerSide
  BY <1>6, <1>1, <1>2, <1>3 DEF ServerSide, MintToken, TokenDies, EnrollReplyLost,
       RevokeDevice, ServerCrash
<1> QED BY <1>4, <1>5, <1>6, Sides

(* No step breaks PolicyInv, and nothing issued is forgotten. *)
LEMMA PolicyStep ==
  ASSUME TypeOK, PolicyInv, [Next]_vars
  PROVE  PolicyInv' /\ issued \subseteq issued'
<1>1. CASE UNCHANGED <<policy, issued>>
  BY <1>1 DEF PolicyInv, VersionNamesBundle, Current
<1> QED BY <1>1, PolicySteps, PutPolicyKeeps

(* PolicyInv holds in every reachable state. *)
LEMMA PolicyInvariant == Spec => []PolicyInv
<1>1. Init => PolicyInv
  BY ControlAssumption DEF Init, PolicyInv, VersionNamesBundle, Current, Seed
<1>2. TypeOK /\ PolicyInv /\ [Next]_vars => PolicyInv'
  BY PolicyStep
<1> QED BY <1>1, <1>2, ControlTypes, PTL DEF Spec

(* A version names one bundle of its organisation for ever: PutPolicy in   *)
(* one transaction never gives a version twice, whoever else puts.         *)
THEOREM VersionsUnique == Spec => []VersionNamesBundle
<1>1. PolicyInv => VersionNamesBundle
  BY DEF PolicyInv
<1> QED BY <1>1, PolicyInvariant, PTL

-----------------------------------------------------------------------------
(* The cache.  A reply that is still signed is a bundle the server stored, *)
(* whatever it was the answer to.                                          *)
CacheInv ==
  \A l \in Laptops :
    /\ cached[l] # None => cached[l] \in issued
    /\ sync[l].pc = "reply" /\ sync[l].signed => sync[l].bundle \in issued
    /\ sync[l].pc \in {"etag", "write"} => cached[l] = sync[l].bundle

(* If the laptop is not misled, it is as new as what the laptop has cached *)
(* from that organisation: the server answered with its newest, and        *)
(* nothing else writes the cache.                                          *)
Newer(l) ==
  cached[l] # None /\ cached[l].org = sync[l].bundle.org =>
    cached[l].version <= sync[l].bundle.version

FreshInv ==
  \A l \in Laptops \ misled : sync[l].pc = "reply" /\ sync[l].signed => Newer(l)

(* A laptop that was misled stays so, and becomes so on its own. *)
LEMMA Misleads ==
  ASSUME [Next]_vars
  PROVE  \/ UNCHANGED misled
         \/ /\ \E l \in Laptops : misled' = misled \cup {l}
            /\ UNCHANGED <<policy, issued, cached>>
<1> USE DEF serverVars, laptopVars
<1>1. CASE ServerSide \/ CalmsDown \/ UNCHANGED vars
  BY <1>1 DEF ServerSide, MintToken, TokenDies, EnrollReplyLost, RevokeDevice, AdminPut,
       ServerStep, BuildBegin, BuildFails, BuildReady, BuildRead, BuildPin, ServerCrash,
       CalmsDown, vars
<1>2. ASSUME NEW l \in Laptops, LaptopSide(l)
      PROVE  \/ UNCHANGED misled
             \/ misled' = misled \cup {l} /\ UNCHANGED <<policy, issued, cached>>
  BY <1>2 DEF LaptopSide, Enroll, DaemonStart, DaemonEnds, SyncStep, SyncSend, ServerAccepts,
       ServerRejects, NotModified, SendBundle, Save, TruncateEtag, SaveEtag, SyncFails,
       Meddles, Tamper, Replay, ChangeTag
<1> QED BY <1>1, <1>2, Sides

(* What each step does to the cache and the Sync of a laptop. *)
LEMMA SyncSteps ==
  ASSUME TypeInv, [Next]_vars, NEW l \in Laptops
  PROVE  \/ /\ UNCHANGED <<cached[l], etag[l]>>
            /\ \/ UNCHANGED sync[l]
               \/ sync'[l].pc = "idle"
               \/ NotModified(l)
               \/ /\ sync'[l].pc = "sent"
                  /\ sync'[l].etag = etag[l]
               \/ /\ sync[l].pc = "sent"
                  /\ sync'[l] = [sync[l] EXCEPT !.pc = "authed"]
               \/ /\ sync'[l].pc = "reply" /\ ~sync'[l].signed
                  /\ sync[l].pc = "reply" /\ sync'[l].tag = sync[l].tag
                  /\ sync'[l].bundle.version = sync[l].bundle.version
               \/ /\ l \in misled'
                  /\ sync[l].pc = "reply"
                  /\ \E v : sync'[l] = [sync[l] EXCEPT !.tag = v]
               \/ l \in misled' /\ \E b \in issued : Reply(l, b)
               \/ SendBundle(l)
         \/ Save(l)
         \/ TruncateEtag(l)
         \/ SaveEtag(l)
<1> USE DEF TypeInv, TypeOK, serverVars, laptopVars
<1>1. CASE UNCHANGED <<cached, etag, sync>>
  BY <1>1
<1>2. CASE ServerSide \/ CalmsDown \/ UNCHANGED vars
  <2>1. UNCHANGED <<cached, etag, sync>>
    BY <1>2 DEF ServerSide, MintToken, TokenDies, EnrollReplyLost, RevokeDevice, AdminPut,
         ServerStep, BuildBegin, BuildFails, BuildReady, BuildRead, BuildPin, ServerCrash,
         CalmsDown, vars
  <2> QED BY <1>1, <2>1
<1>3. ASSUME NEW m \in Laptops, m # l, LaptopSide(m)
      PROVE  UNCHANGED <<cached[l], etag[l], sync[l]>>
  BY <1>3 DEF LaptopSide, Enroll, DaemonStart, DaemonEnds, SyncStep, SyncSend, ServerAccepts,
       ServerRejects, NotModified, SendBundle, Reply, Save, Saved, TruncateEtag, SaveEtag,
       SyncFails, Meddles, Tamper, Replay, ChangeTag
<1>4. CASE LaptopSide(l)
  <2>1. CASE (\E t \in Tokens, d \in Devices : Enroll(l, t, d)) \/ DaemonStart(l)
    BY <2>1, <1>1 DEF Enroll, DaemonStart
  <2>2. CASE DaemonEnds(l) \/ ServerRejects(l) \/ SyncFails(l) \/ NotModified(l)
    BY <2>2, RestType DEF DaemonEnds, ServerRejects, SyncFails, NotModified
  <2>3. CASE SyncSend(l)
    BY <2>3 DEF SyncSend, Rest
  <2>4. CASE ServerAccepts(l)
    BY <2>4 DEF ServerAccepts
  <2>5. CASE \E i \in Images : Tamper(l, i)
    <3>1. PICK i \in Images : Tamper(l, i)
      BY <2>5
    <3>2. sync[l] \in Sync
      OBVIOUS
    <3>3. sync'[l] = [sync[l] EXCEPT !.bundle = [sync[l].bundle EXCEPT !.image = i], !.signed = FALSE]
      BY <3>1 DEF Tamper
    <3>4. sync[l].bundle \in Bundle
      BY <3>1 DEF Tamper, SyncCarries
    <3>5. sync'[l].bundle.version = sync[l].bundle.version
      BY <3>2, <3>3, <3>4 DEF Sync, Bundle
    <3> QED BY <3>1, <3>2, <3>3, <3>5 DEF Tamper, Sync
  <2>7. CASE \E b \in issued : Replay(l, b)
    BY <2>7 DEF Replay
  <2>8. CASE \E v \in Versions \cup {None} : ChangeTag(l, v)
    BY <2>8 DEF ChangeTag
  <2>6. CASE SendBundle(l)
    BY <2>6 DEF SendBundle
  <2> QED BY <1>4, <2>1, <2>2, <2>3, <2>4, <2>5, <2>6, <2>7, <2>8
       DEF LaptopSide, SyncStep, Meddles
<1> QED BY <1>2, <1>3, <1>4, Sides

(* A reply with a bundle b. *)
LEMMA ReplyFields ==
  ASSUME TypeOK, NEW l \in Laptops, NEW b, Reply(l, b)
  PROVE  /\ sync'[l].pc = "reply" /\ sync'[l].bundle = b /\ sync'[l].signed = TRUE
         /\ sync'[l].tag = b.version
BY DEF Reply, TypeOK, Sync

(* What a saved bundle leaves of the Sync. *)
LEMMA SavedFields ==
  ASSUME TypeOK, NEW l \in Laptops, Save(l)
  PROVE  /\ cached'[l] = sync[l].bundle /\ etag'[l] = etag[l]
         /\ sync[l].pc = "reply" /\ sync[l].signed
         /\ \/ sync'[l].pc = "idle"
            \/ sync'[l].pc = "etag" /\ sync'[l].bundle = sync[l].bundle
                                   /\ sync'[l].tag = sync[l].tag
BY RestType DEF Save, Saved, TypeOK, Sync

(* No step breaks CacheInv. *)
LEMMA CacheStep ==
  ASSUME TypeInv, PolicyInv, CacheInv, [Next]_vars
  PROVE  CacheInv'
<1> SUFFICES ASSUME NEW l \in Laptops
             PROVE  /\ cached'[l] # None => cached'[l] \in issued'
                    /\ sync'[l].pc = "reply" /\ sync'[l].signed => sync'[l].bundle \in issued'
                    /\ sync'[l].pc \in {"etag", "write"} => cached'[l] = sync'[l].bundle
  BY DEF CacheInv
<1>0. /\ TypeOK /\ sync[l] \in Sync /\ sync \in [Laptops -> Sync]
      /\ issued \subseteq issued'
      /\ cached[l] # None => cached[l] \in issued
      /\ sync[l].pc = "reply" /\ sync[l].signed => sync[l].bundle \in issued
      /\ sync[l].pc \in {"etag", "write"} => cached[l] = sync[l].bundle
  BY PolicyStep DEF CacheInv, TypeInv, TypeOK
<1>1. CASE UNCHANGED <<cached[l], sync[l]>>
  BY <1>0, <1>1
<1>2. CASE UNCHANGED cached[l] /\ (sync'[l].pc = "idle" \/ sync'[l].pc = "sent")
  BY <1>0, <1>2
<1>3. CASE UNCHANGED cached[l] /\ sync'[l] = [sync[l] EXCEPT !.pc = "authed"]
  BY <1>0, <1>3 DEF Sync
<1>4. CASE UNCHANGED cached[l] /\ sync'[l].pc = "reply" /\ ~sync'[l].signed
  BY <1>0, <1>4
<1>5. CASE UNCHANGED cached[l] /\ SendBundle(l)
  <2>1. sync[l].org \in Orgs
    BY <1>5 DEF SendBundle, TypeInv, SyncCarries
  <2>2. sync'[l].pc = "reply" /\ sync'[l].bundle = Current(sync[l].org)
    BY <1>0, <1>5, ReplyFields DEF SendBundle
  <2>3. Current(sync[l].org) \in issued
    BY <2>1 DEF PolicyInv
  <2> QED BY <1>0, <1>5, <2>2, <2>3
<1>6. CASE Save(l)
  BY <1>0, <1>6, SavedFields
<1>7. CASE TruncateEtag(l)
  <2>1. cached'[l] = cached[l] /\ sync'[l] = [sync[l] EXCEPT !.pc = "write"]
    BY <1>0, <1>7 DEF TruncateEtag
  <2> QED BY <1>0, <1>7, <2>1 DEF Sync, TruncateEtag
<1>8. CASE SaveEtag(l) \/ NotModified(l)
  <2>1. cached'[l] = cached[l] /\ sync'[l].pc = "idle"
    BY <1>0, <1>8, RestType DEF SaveEtag, NotModified
  <2> QED BY <1>0, <2>1
<1>9. CASE UNCHANGED cached[l] /\ \E b \in issued : Reply(l, b)
  BY <1>0, <1>9, ReplyFields
<1>10. CASE /\ UNCHANGED cached[l] /\ sync[l].pc = "reply"
            /\ \E v : sync'[l] = [sync[l] EXCEPT !.tag = v]
  BY <1>0, <1>10 DEF Sync
<1> QED
  BY <1>1, <1>2, <1>3, <1>4, <1>5, <1>6, <1>7, <1>8, <1>9, <1>10, SyncSteps

(* The three invariants hold together. *)
LEMMA CacheInvariant == Spec => [](TypeInv /\ PolicyInv /\ CacheInv)
<1>1. Init => CacheInv
  BY RestType DEF Init, CacheInv
<1>2. TypeInv /\ PolicyInv /\ CacheInv /\ [Next]_vars => CacheInv'
  BY CacheStep
<1> QED BY <1>1, <1>2, TypesInvariant, PolicyInvariant, PTL DEF Spec

(* A laptop never launches from a bundle the server did not store, however *)
(* replies are altered, repeated or relabelled and wherever a Sync stops.  *)
THEOREM CacheSound == Spec => []CachedIsIssued
<1>1. CacheInv => CachedIsIssued
  BY DEF CacheInv, CachedIsIssued
<1> QED BY <1>1, CacheInvariant, PTL

-----------------------------------------------------------------------------
(* Versions, for laptops that are not misled.                              *)

(* No step breaks FreshInv. *)
LEMMA FreshStep ==
  ASSUME TypeInv, PolicyInv, CacheInv, FreshInv, [Next]_vars
  PROVE  FreshInv'
<1> SUFFICES ASSUME NEW l \in Laptops, l \notin misled', sync'[l].pc = "reply", sync'[l].signed
             PROVE  Newer(l)'
  BY DEF FreshInv
<1>0. /\ TypeOK /\ sync[l] \in Sync
      /\ cached[l] # None => cached[l] \in issued
      /\ sync[l].pc = "reply" /\ sync[l].signed => Newer(l)
  BY Misleads DEF CacheInv, FreshInv, TypeInv, TypeOK
<1>1. CASE UNCHANGED <<cached[l], sync[l]>>
  BY <1>0, <1>1 DEF Newer
<1>2. CASE /\ UNCHANGED cached[l] /\ sync[l].pc = "reply"
           /\ \E v : sync'[l] = [sync[l] EXCEPT !.tag = v]
  BY <1>0, <1>2 DEF Newer, Sync
<1>3. CASE UNCHANGED cached[l] /\ SendBundle(l)
  <2>1. sync'[l].bundle = Current(sync[l].org)
    BY <1>0, <1>3, ReplyFields DEF SendBundle
  <2>2. cached[l] # None /\ cached[l].org = sync[l].org =>
          cached[l].version <= policy[sync[l].org].version
    BY <1>0 DEF PolicyInv
  <2> QED BY <1>3, <2>1, <2>2 DEF Newer, Current
<1>4. CASE sync'[l] = [sync[l] EXCEPT !.pc = "authed"]
  BY <1>0, <1>4 DEF Sync
<1>5. CASE Save(l)
  BY <1>0, <1>5, SavedFields
<1>6. CASE TruncateEtag(l)
  BY <1>0, <1>6 DEF TruncateEtag, TypeOK, Sync
<1>7. CASE SaveEtag(l) \/ NotModified(l)
  BY <1>0, <1>7, RestType DEF SaveEtag, NotModified, TypeOK
<1> QED BY <1>1, <1>2, <1>3, <1>4, <1>5, <1>6, <1>7, SyncSteps

(* The invariants hold with it. *)
LEMMA FreshInvariant == Spec => [](TypeInv /\ PolicyInv /\ CacheInv /\ FreshInv)
<1>1. Init => FreshInv
  BY RestType DEF Init, FreshInv
<1>2. TypeInv /\ PolicyInv /\ CacheInv /\ FreshInv /\ [Next]_vars => FreshInv'
  BY FreshStep
<1> QED BY <1>1, <1>2, CacheInvariant, PTL DEF Spec

(* No step takes a laptop that was not misled back to an older bundle of   *)
(* the organisation its cached bundle is from.                             *)
THEOREM NoRollback == Spec => CacheMonotone
<1>1. ASSUME TypeInv, PolicyInv, CacheInv, FreshInv, [Next]_vars
      PROVE  \A l \in Laptops \ misled' :
               cached[l] # None /\ cached'[l].org = cached[l].org =>
                 cached'[l].version >= cached[l].version
  <2> SUFFICES ASSUME NEW l \in Laptops, l \notin misled', cached[l] # None,
                      cached'[l].org = cached[l].org
               PROVE  cached'[l].version >= cached[l].version
    OBVIOUS
  <2>0. cached[l] \in Bundle /\ cached[l].version \in Nat
    BY <1>1, ControlAssumption DEF TypeInv, TypeOK, Bundle, Versions
  <2>1. CASE cached'[l] = cached[l]
    BY <2>0, <2>1
  <2>2. CASE Save(l)
    <3>1. cached'[l] = sync[l].bundle
      BY <1>1, <2>2, SavedFields DEF TypeInv
    <3>2. Newer(l)
      BY <1>1, <2>2, Misleads DEF Save, FreshInv
    <3>3. sync[l].bundle \in Bundle /\ sync[l].bundle.version \in Nat
      BY <1>1, <2>2, ControlAssumption DEF Save, TypeInv, SyncCarries, Bundle, Versions
    <3> QED BY <2>0, <3>1, <3>2, <3>3 DEF Newer
  <2>3. CASE TruncateEtag(l) \/ SaveEtag(l)
    BY <2>0, <2>3 DEF TruncateEtag, SaveEtag
  <2> QED BY <1>1, <2>1, <2>2, <2>3, SyncSteps
<1> QED BY <1>1, FreshInvariant, PTL DEF Spec, CacheMonotone

-----------------------------------------------------------------------------
(* The ETag, for a laptop that only ever enrolls with one organisation and *)
(* is not misled: it is never ahead of the cached bundle, also when a Sync *)
(* dies between the two writes, and no request is in flight with another   *)
(* one.                                                                    *)

EtagInv ==
  \A l \in Laptops \ misled :
    /\ etag[l] # None => cached[l] # None /\ etag[l] <= cached[l].version
    /\ sync[l].pc \in {"sent", "authed"} => sync[l].etag = etag[l]
    /\ sync[l].pc \in {"reply", "etag", "write"} => sync[l].tag = sync[l].bundle.version

(* With one organisation no step breaks EtagInv. *)
LEMMA EtagStep ==
  ASSUME \A a, b \in Orgs : a = b, TypeInv, PolicyInv, CacheInv, FreshInv, EtagInv, [Next]_vars
  PROVE  EtagInv'
<1> SUFFICES ASSUME NEW l \in Laptops, l \notin misled'
             PROVE  /\ etag'[l] # None => cached'[l] # None /\ etag'[l] <= cached'[l].version
                    /\ sync'[l].pc \in {"sent", "authed"} => sync'[l].etag = etag'[l]
                    /\ sync'[l].pc \in {"reply", "etag", "write"} =>
                         sync'[l].tag = sync'[l].bundle.version
  BY DEF EtagInv
<1>m. l \notin misled
  BY Misleads
<1>0. /\ TypeOK /\ sync \in [Laptops -> Sync] /\ cached \in [Laptops -> Bundle \cup {None}]
      /\ etag \in [Laptops -> Versions \cup {None}]
      /\ sync[l] \in Sync
      /\ etag[l] # None => cached[l] # None /\ etag[l] <= cached[l].version
      /\ sync[l].pc \in {"sent", "authed"} => sync[l].etag = etag[l]
      /\ sync[l].pc \in {"reply", "etag", "write"} => sync[l].tag = sync[l].bundle.version
  BY <1>m DEF TypeInv, TypeOK, EtagInv
<1>1. CASE UNCHANGED <<cached[l], etag[l], sync[l]>>
  BY <1>0, <1>1
<1>2. CASE UNCHANGED <<cached[l], etag[l]>> /\ sync'[l].pc = "idle"
  BY <1>0, <1>2
<1>9. CASE /\ UNCHANGED <<cached[l], etag[l]>>
           /\ sync'[l].pc = "reply" /\ sync[l].pc = "reply" /\ sync'[l].tag = sync[l].tag
           /\ sync'[l].bundle.version = sync[l].bundle.version
  BY <1>0, <1>9
<1>3. CASE UNCHANGED <<cached[l], etag[l]>> /\ sync'[l].pc = "sent" /\ sync'[l].etag = etag[l]
  BY <1>0, <1>3
<1>4. CASE /\ UNCHANGED <<cached[l], etag[l]>> /\ sync[l].pc = "sent"
           /\ sync'[l] = [sync[l] EXCEPT !.pc = "authed"]
  BY <1>0, <1>4 DEF Sync
<1>5. CASE UNCHANGED <<cached[l], etag[l]>> /\ NotModified(l)
  BY <1>0, <1>2, <1>5, RestType DEF NotModified
<1>10. CASE UNCHANGED <<cached[l], etag[l]>> /\ SendBundle(l)
  BY <1>0, <1>10, ReplyFields DEF SendBundle
<1>6. CASE Save(l)
  <2>1. /\ cached'[l] = sync[l].bundle /\ etag'[l] = etag[l]
        /\ \/ sync'[l].pc = "idle"
           \/ sync'[l].pc = "etag" /\ sync'[l].tag = sync[l].tag /\ sync'[l].bundle = sync[l].bundle
    BY <1>0, <1>6, SavedFields
  <2>2. sync[l].bundle \in Bundle /\ Newer(l) /\ sync[l].tag = sync[l].bundle.version
    BY <1>0, <1>6, <1>m DEF Save, TypeInv, SyncCarries, FreshInv
  <2>3. cached[l] # None => cached[l].org = sync[l].bundle.org
    BY <1>0, <2>2 DEF Bundle
  <2>4. cached[l] # None => cached[l].version \in Nat
    BY <1>0, ControlAssumption DEF Bundle, Versions
  <2>5. sync[l].bundle.version \in Nat /\ sync[l].bundle # None
    BY <2>2, ControlAssumption, BundleIsSome DEF Bundle, Versions
  <2>6. etag[l] # None => etag[l] \in Nat
    BY <1>0, ControlAssumption DEF Versions
  <2> QED BY <1>0, <2>1, <2>2, <2>3, <2>4, <2>5, <2>6 DEF Newer
<1>7. CASE TruncateEtag(l)
  <2>1. /\ etag'[l] = None /\ sync'[l].pc = "write" /\ sync[l].pc = "etag"
        /\ sync'[l].tag = sync[l].tag /\ sync'[l].bundle = sync[l].bundle
    BY <1>0, <1>7 DEF TruncateEtag, Sync
  <2> QED BY <1>0, <2>1
<1>8. CASE SaveEtag(l)
  <2>1. /\ cached'[l] = cached[l] /\ etag'[l] = sync[l].bundle.version
        /\ sync'[l].pc = "idle"
    BY <1>0, <1>8, RestType DEF SaveEtag
  <2>2. cached[l] = sync[l].bundle /\ sync[l].bundle \in Bundle
    BY <1>8 DEF SaveEtag, CacheInv, TypeInv, SyncCarries
  <2>3. sync[l].bundle.version \in Nat /\ sync[l].bundle # None
    BY <2>2, ControlAssumption, BundleIsSome DEF Bundle, Versions
  <2> QED BY <2>1, <2>2, <2>3
<1> QED
  BY <1>1, <1>2, <1>3, <1>4, <1>5, <1>6, <1>7, <1>8, <1>9, <1>10, SyncSteps

(* With one organisation, a 304 is only ever answered to a laptop whose    *)
(* cached bundle is the current one, or that was misled.                   *)
THEOREM NotModifiedSound ==
  ASSUME \A a, b \in Orgs : a = b
  PROVE  Spec => NotModifiedIsCurrent
<1>1. Init => EtagInv
  BY RestType DEF Init, EtagInv
<1>2. TypeInv /\ PolicyInv /\ CacheInv /\ FreshInv /\ EtagInv /\ [Next]_vars => EtagInv'
  BY EtagStep
<1>3. ASSUME TypeInv, PolicyInv, CacheInv, EtagInv,
             NEW l \in Laptops \ misled, NotModified(l)
      PROVE  cached[l] = Current(sync[l].org)
  <2> DEFINE o == sync[l].org
  <2>1. /\ sync[l].pc = "authed"
        /\ o \in Orgs
        /\ sync[l].etag = policy[o].version
        /\ sync[l].etag = etag[l]
    BY <1>3 DEF NotModified, TypeInv, SyncCarries, EtagInv
  <2>2. policy[o].version \in Nat
    <3>1. policy[o] \in PolicyRow
      BY <1>3, <2>1 DEF TypeInv, TypeOK
    <3> HIDE DEF o
    <3> QED BY <3>1, ControlAssumption DEF PolicyRow, Versions
  <2>3. etag[l] # None
    BY <2>1, <2>2, ControlAssumption
  <2>4. cached[l] # None /\ etag[l] <= cached[l].version
    BY <1>3, <2>3 DEF EtagInv
  <2>5. cached[l] \in Bundle /\ cached[l] \in issued
    BY <1>3, <2>4 DEF TypeInv, TypeOK, CacheInv
  <2>6. cached[l].org = o /\ cached[l].version \in Nat
    BY <2>1, <2>5, ControlAssumption DEF Bundle, Versions
  <2>7. cached[l].version = policy[o].version
    <3>1. cached[l].version <= policy[o].version
      BY <1>3, <2>5, <2>6 DEF PolicyInv
    <3> QED BY <3>1, <2>1, <2>2, <2>4, <2>6
  <2>8. Current(o) \in issued /\ Current(o).org = o /\ Current(o).version = policy[o].version
    BY <1>3, <2>1 DEF PolicyInv, Current
  <2> QED BY <1>3, <2>5, <2>6, <2>7, <2>8 DEF PolicyInv, VersionNamesBundle
<1>4. TypeInv /\ PolicyInv /\ CacheInv /\ FreshInv /\ EtagInv =>
        \A l \in Laptops \ misled : NotModified(l) => cached[l] = Current(sync[l].org)
  BY <1>3
<1>5. Spec => [](TypeInv /\ PolicyInv /\ CacheInv /\ FreshInv)
  BY FreshInvariant
<1> QED BY <1>1, <1>2, <1>4, <1>5, PTL DEF Spec, NotModifiedIsCurrent

-----------------------------------------------------------------------------
(* The feed.                                                               *)

(* A put issues a version above all its organisation has had. *)
LEMMA PutIssues ==
  ASSUME TypeOK, PolicyInv, NEW o \in Orgs, NEW i \in Images, NEW n \in Denylists,
         PutPolicy(o, i, n), UNCHANGED <<cached, misled>>
  PROVE  \E b \in Bundle : Feed!Issue(b)
<1> DEFINE v == policy[o].version + 1
           new == [org |-> o, version |-> v, image |-> i, deny |-> n]
<1>1. issued' = issued \cup {new} /\ v <= MaxVersion
  BY DEF PutPolicy
<1>2. policy[o].version \in Nat /\ \A x \in issued : x.version \in Nat
  BY ControlAssumption DEF TypeOK, PolicyRow, Bundle, Versions
<1>3. new \in Bundle
  BY <1>1, <1>2, ControlAssumption DEF Bundle, Versions
<1>4. \A x \in issued : x.org = new.org => x.version < new.version
  BY <1>2 DEF PolicyInv
<1>5. Feed!Issue(new)
  BY <1>1, <1>4 DEF Feed!Issue
<1> QED BY <1>3, <1>5

(* A Sync that saves what it verified fetches from the log. *)
LEMMA SaveFetches ==
  ASSUME TypeInv, CacheInv, FreshInv, NEW l \in Laptops, Save(l)
  PROVE  \E b \in Bundle : Feed!Fetch(l, b)
<1>1. (l \notin misled => Newer(l)) /\ sync[l].bundle \in issued /\ sync[l].bundle \in Bundle
  BY DEF Save, CacheInv, FreshInv, TypeInv, SyncCarries
<1>2. Feed!Fetch(l, sync[l].bundle)
  BY <1>1 DEF Save, Newer, Feed!Fetch, serverVars
<1> QED BY <1>1, <1>2

(* Nothing but Save writes policy.json. *)
LEMMA CacheWriters ==
  ASSUME [Next]_vars
  PROVE  UNCHANGED cached \/ \E l \in Laptops : Save(l)
<1> USE DEF serverVars, laptopVars
<1>1. CASE ServerSide \/ CalmsDown \/ UNCHANGED vars
  BY <1>1 DEF ServerSide, MintToken, TokenDies, EnrollReplyLost, RevokeDevice, AdminPut,
       ServerStep, BuildBegin, BuildFails, BuildReady, BuildRead, BuildPin, ServerCrash,
       CalmsDown, vars
<1>2. ASSUME NEW l \in Laptops, LaptopSide(l), ~Save(l) PROVE UNCHANGED cached
  BY <1>2 DEF LaptopSide, Enroll, DaemonStart, DaemonEnds, SyncStep, SyncSend, ServerAccepts,
       ServerRejects, NotModified, SendBundle, TruncateEtag, SaveEtag, SyncFails, Meddles,
       Tamper, Replay, ChangeTag
<1> QED BY <1>1, <1>2, Sides

(* Store, handlers and laptops implement the feed of policies: versions of *)
(* an organisation only grow, and a laptop's copy is replaced only by one  *)
(* from the log, that is no older unless the laptop was misled, whatever   *)
(* is lost, altered or cut short.                                          *)
THEOREM FeedImplemented == Spec => ImplementsFeed
<1>1. Init => Feed!Init
  <2> SUFFICES ASSUME Init PROVE Feed!Init
    OBVIOUS
  <2>1. issued \subseteq Bundle
    BY ControlAssumption DEF Init, Bundle, Versions
  <2>2. \A x, y \in issued : x.org = y.org => x = y
    BY DEF Init
  <2>3. cached = [l \in Laptops |-> None] /\ misled = {}
    BY DEF Init
  <2> QED BY <2>1, <2>2, <2>3 DEF Feed!Init
<1>2. TypeInv /\ PolicyInv /\ CacheInv /\ FreshInv /\ [Next]_vars => [Feed!Next]_Feed!vars
  <2> SUFFICES ASSUME TypeInv, PolicyInv, CacheInv, FreshInv, [Next]_vars
               PROVE  [Feed!Next]_Feed!vars
    OBVIOUS
  <2>1. ASSUME NEW l \in Laptops, Save(l) PROVE Feed!Next
    BY <2>1, SaveFetches DEF Feed!Next
  <2>2. CASE UNCHANGED <<cached, policy, issued, misled>>
    BY <2>2 DEF Feed!vars
  <2>4. ASSUME NEW l \in Laptops, misled' = misled \cup {l}, UNCHANGED <<issued, cached>>
        PROVE  Feed!Next
    BY <2>4 DEF Feed!Next, Feed!Mislead
  <2>3. ASSUME NEW o \in Orgs, NEW i \in Images, NEW n \in Denylists, PutPolicy(o, i, n),
               UNCHANGED <<laptopVars, misled>>
        PROVE  Feed!Next
    BY <2>3, PutIssues DEF Feed!Next, TypeInv, laptopVars
  <2> QED BY <2>1, <2>2, <2>3, <2>4, Misleads, CacheWriters, PolicySteps DEF TypeInv
<1> QED BY <1>1, <1>2, FreshInvariant, PTL DEF Spec, ImplementsFeed, Feed!Spec

-----------------------------------------------------------------------------
(* Tokens.                                                                 *)

(* The devices a token has enrolled. *)
EnrolledBy(t) == {d \in Devices : devices[d] # None /\ devices[d].by = t}

(* The strengthening of TokenLimit: a token that was not minted has        *)
(* enrolled nobody, and no token infinitely many.                          *)
TokenInv ==
  \A t \in Tokens :
    /\ IsFiniteSet(EnrolledBy(t))
    /\ tokens[t] = None => EnrolledBy(t) = {}
    /\ tokens[t] # None =>
         /\ tokens[t].used = Cardinality(EnrolledBy(t))
         /\ tokens[t].max # 0 => Cardinality(EnrolledBy(t)) <= tokens[t].max

(* A row is not None. *)
LEMMA SomeRows == None \notin TokenRow /\ None \notin DeviceRow
BY ControlAssumption DEF TokenRow, DeviceRow

(* The transaction adds one device and one use, within the limit. *)
LEMMA EnrollKeepsLimit ==
  ASSUME TypeOK, TokenInv, NEW t \in Tokens, NEW d \in Devices, EnrollDevice(t, d)
  PROVE  TokenInv'
<1> DEFINE row == [org |-> tokens[t].org, revoked |-> FALSE, by |-> t]
<1>1. /\ devices' = [devices EXCEPT ![d] = row] /\ devices[d] = None
      /\ devices \in [Devices -> DeviceRow \cup {None}]
      /\ tokens' = [tokens EXCEPT ![t].used = @ + 1]
      /\ tokens \in [Tokens -> TokenRow \cup {None}]
      /\ tokens[t] # None /\ (tokens[t].max # 0 => tokens[t].used < tokens[t].max)
  BY DEF EnrollDevice, Usable, TypeOK
<1>2. tokens[t] \in TokenRow /\ tokens[t].used \in Nat /\ tokens[t].max \in Nat
      /\ tokens[t].org \in Orgs
  BY <1>1, ControlAssumption DEF TokenRow
<1>3. row # None /\ row.by = t
  <2>1. row \in DeviceRow
    BY <1>2 DEF DeviceRow
  <2> QED BY <2>1, SomeRows
<1>4. /\ tokens'[t].used = tokens[t].used + 1 /\ tokens'[t].max = tokens[t].max
      /\ tokens'[t] # None
      /\ \A u \in Tokens : u # t => tokens'[u] = tokens[u]
  BY <1>1, <1>2, SomeRows DEF TokenRow
<1>5. EnrolledBy(t)' = EnrolledBy(t) \cup {d} /\ d \notin EnrolledBy(t)
  BY <1>1, <1>3 DEF EnrolledBy
<1>6. \A u \in Tokens : u # t => EnrolledBy(u)' = EnrolledBy(u)
  BY <1>1, <1>3 DEF EnrolledBy
<1>7. /\ IsFiniteSet(EnrolledBy(t)) /\ tokens[t].used = Cardinality(EnrolledBy(t))
      /\ Cardinality(EnrolledBy(t)) \in Nat
  BY <1>1, <1>2 DEF TokenInv
<1>8. /\ IsFiniteSet(EnrolledBy(t) \cup {d})
      /\ Cardinality(EnrolledBy(t) \cup {d}) = Cardinality(EnrolledBy(t)) + 1
  BY <1>5, <1>7, FS_AddElement
<1>9. /\ IsFiniteSet(EnrolledBy(t)')
      /\ tokens'[t].used = Cardinality(EnrolledBy(t)')
      /\ tokens'[t].max # 0 => Cardinality(EnrolledBy(t)') <= tokens'[t].max
  BY <1>1, <1>2, <1>4, <1>5, <1>7, <1>8
<1>10. ASSUME NEW u \in Tokens
       PROVE  /\ IsFiniteSet(EnrolledBy(u)')
              /\ tokens'[u] = None => EnrolledBy(u)' = {}
              /\ tokens'[u] # None =>
                   /\ tokens'[u].used = Cardinality(EnrolledBy(u)')
                   /\ tokens'[u].max # 0 => Cardinality(EnrolledBy(u)') <= tokens'[u].max
  <2>1. CASE u = t
    BY <2>1, <1>4, <1>9
  <2>2. CASE u # t
    BY <2>2, <1>4, <1>6 DEF TokenInv
  <2> QED BY <2>1, <2>2
<1> QED BY <1>10 DEF TokenInv

(* used_count counts the devices a token enrolled, and a limited token     *)
(* never enrolls more than its limit, however many enrollments race and    *)
(* however many replies are lost.                                          *)
THEOREM TokenLimitHolds == Spec => []TokenLimit
<1>1. Init => TokenInv
  <2> SUFFICES ASSUME Init, NEW t \in Tokens PROVE EnrolledBy(t) = {} /\ tokens[t] = None
    BY FS_EmptySet DEF TokenInv
  <2> QED BY DEF Init, EnrolledBy
<1>2. TypeOK /\ TokenInv /\ [Next]_vars => TokenInv'
  <2> SUFFICES ASSUME TypeOK, TokenInv, [Next]_vars PROVE TokenInv'
    OBVIOUS
  <2>1. ASSUME UNCHANGED <<tokens, devices>> PROVE TokenInv'
    <3>1. \A t \in Tokens : EnrolledBy(t)' = EnrolledBy(t) /\ tokens'[t] = tokens[t]
      BY <2>1 DEF EnrolledBy
    <3> QED BY <3>1 DEF TokenInv
  <2>2. ASSUME NEW t \in Tokens, NEW d \in Devices, EnrollDevice(t, d) PROVE TokenInv'
    BY <2>2, EnrollKeepsLimit
  <2>3. ASSUME NEW t \in Tokens, NEW o \in Orgs, NEW n \in Uses, MintToken(t, o, n)
        PROVE  TokenInv'
    <3>1. /\ tokens'[t] = [org |-> o, max |-> n, used |-> 0, dead |-> FALSE]
          /\ \A u \in Tokens : u # t => tokens'[u] = tokens[u]
          /\ tokens[t] = None /\ devices' = devices
      BY <2>3 DEF MintToken, TypeOK
    <3>2. \A u \in Tokens : EnrolledBy(u)' = EnrolledBy(u)
      BY <3>1 DEF EnrolledBy
    <3>3. EnrolledBy(t) = {} /\ n \in Nat
      BY <3>1, ControlAssumption DEF TokenInv
    <3>4. tokens'[t] # None /\ tokens'[t].used = 0 /\ tokens'[t].max = n
      <4>1. tokens'[t] \in TokenRow
        BY <3>1, <3>3 DEF TokenRow
      <4>2. tokens'[t] # None
        BY <4>1, SomeRows
      <4>3. tokens'[t].used = 0 /\ tokens'[t].max = n
        BY <3>1
      <4> QED BY <4>2, <4>3
    <3>5. IsFiniteSet({}) /\ Cardinality({}) = 0
      BY FS_EmptySet
    <3>6. ASSUME NEW u \in Tokens
          PROVE  /\ IsFiniteSet(EnrolledBy(u)')
                 /\ tokens'[u] = None => EnrolledBy(u)' = {}
                 /\ tokens'[u] # None =>
                      /\ tokens'[u].used = Cardinality(EnrolledBy(u)')
                      /\ tokens'[u].max # 0 => Cardinality(EnrolledBy(u)') <= tokens'[u].max
      <4>1. CASE u = t
        BY <4>1, <3>2, <3>3, <3>4, <3>5
      <4>2. CASE u # t
        BY <4>2, <3>1, <3>2 DEF TokenInv
      <4> QED BY <4>1, <4>2
    <3> QED BY <3>6 DEF TokenInv
  <2>4. ASSUME NEW t \in Tokens, TokenDies(t) PROVE TokenInv'
    <3>0. tokens[t] \in TokenRow /\ tokens \in [Tokens -> TokenRow \cup {None}]
      BY <2>4 DEF TokenDies, TypeOK
    <3>1. /\ tokens'[t] = [tokens[t] EXCEPT !.dead = TRUE]
          /\ \A u \in Tokens : u # t => tokens'[u] = tokens[u]
          /\ tokens[t] # None /\ devices' = devices
      BY <2>4, <3>0 DEF TokenDies
    <3>2. \A u \in Tokens : EnrolledBy(u)' = EnrolledBy(u)
      BY <3>1 DEF EnrolledBy
    <3>3. tokens'[t].used = tokens[t].used /\ tokens'[t].max = tokens[t].max
          /\ tokens'[t] # None
      <4>1. tokens'[t] \in TokenRow
        BY <3>0, <3>1 DEF TokenRow
      <4> QED BY <3>0, <3>1, <4>1, SomeRows DEF TokenRow
    <3> QED BY <3>1, <3>2, <3>3 DEF TokenInv
  <2>5. ASSUME NEW d \in Devices, RevokeDevice(d) PROVE TokenInv'
    <3>0. devices[d] \in DeviceRow /\ devices \in [Devices -> DeviceRow \cup {None}]
      BY <2>5 DEF RevokeDevice, TypeOK
    <3>1. /\ devices'[d] = [devices[d] EXCEPT !.revoked = TRUE]
          /\ \A e \in Devices : e # d => devices'[e] = devices[e]
          /\ devices[d] # None /\ tokens' = tokens
      BY <2>5, <3>0 DEF RevokeDevice
    <3>2. devices'[d] \in DeviceRow /\ devices'[d].by = devices[d].by /\ devices'[d] # None
      BY <3>0, <3>1, SomeRows DEF DeviceRow
    <3>3. \A u \in Tokens : EnrolledBy(u)' = EnrolledBy(u)
      BY <3>1, <3>2 DEF EnrolledBy
    <3> QED BY <3>1, <3>3 DEF TokenInv
  <2>6. CASE ServerSide
    BY <2>1, <2>2, <2>3, <2>4, <2>5, <2>6 DEF ServerSide, EnrollReplyLost, AdminPut, ServerStep,
         BuildBegin, BuildFails, BuildReady, BuildRead, BuildPin, ServerCrash
  <2>7. ASSUME NEW l \in Laptops, LaptopSide(l) PROVE TokenInv'
    BY <2>1, <2>2, <2>7 DEF LaptopSide, Enroll, DaemonStart, DaemonEnds, SyncStep, SyncSend,
         ServerAccepts, ServerRejects, NotModified, SendBundle, Save, TruncateEtag, SaveEtag,
         SyncFails, Meddles, Tamper, Replay, ChangeTag, serverVars
  <2>8. CASE CalmsDown \/ UNCHANGED vars
    BY <2>1, <2>8 DEF CalmsDown, vars, serverVars
  <2> QED BY <2>6, <2>7, <2>8, Sides
<1>3. TokenInv => TokenLimit
  BY DEF TokenInv, TokenLimit, EnrolledBy
<1> QED BY <1>1, <1>2, <1>3, ControlTypes, PTL DEF Spec
=============================================================================
