---------------------------- MODULE DesktopProofs ----------------------------
(***************************************************************************)
(* The renderer bridge is safe for every set of extents, every width of    *)
(* the generation counter and any number of resizes and lifetimes: the     *)
(* mask handshake and the sidecar have an inductive invariant each.  And   *)
(* for any owners, extensions, schemes, applications and number of calls a *)
(* shell registration is a transaction, whatever fails, is lost or dies.   *)
(***************************************************************************)
EXTENDS RendererBridge, ShellRegistration, SequenceTheorems, TLAPS

-----------------------------------------------------------------------------
(* The renderer bridge *)

\* The generation handshake.
MaskInv ==
  /\ lifetime \in {"closed", "open", "pendingFinalize"} /\ framebuffer \in Extents
  /\ MaskType
  /\ TargetInv
  /\ ActiveMaskIsCurrent

\* The sidecar and the occlusion events; a closed window has no provider.
SidecarInv ==
  /\ WindowType
  /\ PublicationFollowsWindow
  /\ OcclusionEventsAgree
  /\ lifetime = "closed" => provider = "detached"

\* Steps that only touch the sidecar, the flags or the provider.
LEMMA MaskInvKept ==
  ASSUME MaskInv, UNCHANGED <<lifetime, framebuffer, generation, exhausted, mask, pending, target,
                              accepted, epoch>>,
         integrated' \in {integrated, TRUE}
  PROVE  MaskInv'
  BY DEF MaskInv, MaskType, TargetInv, ActiveMaskIsCurrent

\* invalidatePointerHitMask withdraws mask and target and never turns the counter back.
LEMMA Invalidation ==
  ASSUME MaskType, TargetInv, InvalidatePointerHitMask
  PROVE  /\ integrated' \in BOOLEAN /\ exhausted' \in BOOLEAN
         /\ generation' \in Generations /\ generation' >= generation
         /\ mask' = NoMask /\ pending' = NoPending
<1> USE BridgeAssumption DEF MaskType, Generations, InvalidatePointerHitMask, AdvanceGeneration
<1>1. CASE integrated /\ generation < MaxGeneration
  BY <1>1
<1>2. CASE ~(integrated /\ generation < MaxGeneration)
  <2>1. generation' = generation /\ exhausted' \in BOOLEAN
    BY <1>2, Zenon
  <2> QED
    BY <2>1
<1> QED
  BY <1>1, <1>2

\* After an invalidation the invariant holds whatever becomes of window and epoch.
LEMMA InvalidationKeepsMaskInv ==
  ASSUME MaskInv, InvalidatePointerHitMask, UNCHANGED <<target, accepted>>,
         lifetime' \in {"closed", "open", "pendingFinalize"}, framebuffer' \in Extents,
         epoch' \in 0..MaxEpoch
  PROVE  MaskInv'
<1>1. /\ integrated' \in BOOLEAN /\ exhausted' \in BOOLEAN
      /\ generation' \in Generations /\ generation' >= generation
      /\ mask' = NoMask /\ pending' = NoPending
  BY Invalidation DEF MaskInv
<1>2. MaskType'
  BY <1>1, BridgeAssumption DEF MaskInv, MaskType, NoMask, NoPending, Generations
<1>3. TargetInv' /\ ActiveMaskIsCurrent'
  BY <1>1 DEF MaskInv, MaskType, Generations, TargetInv, ActiveMaskIsCurrent, NoMask, NoPending
<1> QED
  BY <1>2, <1>3 DEF MaskInv

\* Every operation of the window and of the bridge preserves the handshake: a generation is
\* issued once, and a target of another extent, epoch or lifetime is never accepted.
THEOREM MaskInvariance == Spec => []MaskInv
<1> USE BridgeAssumption
<1>1. Init => MaskInv
  <2> SUFFICES ASSUME Init PROVE MaskInv
    OBVIOUS
  <2>1. 0 \in Generations /\ 0 \in 0..MaxEpoch /\ 0 \in Extents
    BY DEF Generations
  <2>2. MaskType
    BY <2>1, Zenon DEF Init, MaskType, NoMask, NoPending, NoTarget
  <2>3. TargetInv /\ ActiveMaskIsCurrent
    BY DEF Init, TargetInv, ActiveMaskIsCurrent, NoMask, NoPending, NoTarget
  <2> QED
    BY <2>1, <2>2, <2>3 DEF Init, MaskInv
<1>2. MaskInv /\ [Next]_vars => MaskInv'
  <2> SUFFICES ASSUME MaskInv, [Next]_vars PROVE MaskInv'
    OBVIOUS
  <2>1. ASSUME NEW extent \in Extents, Resize(extent) PROVE MaskInv'
    <3>1. CASE InvalidatedByExtent(extent)
      BY <2>1, <3>1, InvalidationKeepsMaskInv DEF MaskInv, MaskType, Resize, NewEpoch
    <3>2. CASE ~InvalidatedByExtent(extent)
      <4>1. mask.generation = 0 /\ pending.generation = 0
        BY <2>1, <3>2 DEF Resize, InvalidatedByExtent, MaskInv, TargetInv, ActiveMaskIsCurrent
      <4> QED
        BY <2>1, <3>2, <4>1 DEF Resize, NewEpoch, maskVars, MaskInv, MaskType, TargetInv, ActiveMaskIsCurrent
    <3> QED
      BY <3>1, <3>2
  <2>2. ASSUME NEW extent \in Extents, NEW shown \in BOOLEAN, Open(extent, shown) PROVE MaskInv'
    <3>1. mask.generation = 0 /\ pending.generation = 0
      BY <2>2 DEF Open, MaskInv, TargetInv, ActiveMaskIsCurrent
    <3> QED
      BY <2>2, <3>1 DEF Open, NewEpoch, maskVars, MaskInv, MaskType, TargetInv, ActiveMaskIsCurrent
  <2>3. ASSUME NEW flag \in Flags, NEW value \in BOOLEAN, FlagMessage(flag, value) PROVE MaskInv'
    BY <2>3, MaskInvKept DEF FlagMessage, maskVars, historyVars
  <2>4. ASSUME NEW value \in {"shown", "occluded"}, ReportOcclusion(value) PROVE MaskInv'
    BY <2>4, MaskInvKept DEF ReportOcclusion, windowVars, maskVars
  <2>5. CASE OpenFails
    BY <2>5, MaskInvKept DEF OpenFails, windowVars, maskVars, historyVars
  <2>6. CASE NativeLoss
    BY <2>6, InvalidationKeepsMaskInv DEF NativeLoss, NewEpoch, MaskInv, MaskType
  <2>7. CASE Close
    BY <2>7, InvalidationKeepsMaskInv DEF Close, MaskInv, MaskType
  <2>8. CASE CloseFails
    BY <2>8, InvalidationKeepsMaskInv DEF CloseFails, NewEpoch, windowVars, MaskInv, MaskType
  <2>9. CASE EnableConcurrentPresentationReads
    BY <2>9, MaskInvKept DEF EnableConcurrentPresentationReads, windowVars, maskVars, historyVars
  <2>10. CASE AttachOcclusionProvider
    BY <2>10, MaskInvKept DEF AttachOcclusionProvider, windowVars, historyVars
  <2>11. CASE DetachOcclusionProvider
    BY <2>11, MaskInvKept DEF DetachOcclusionProvider, windowVars, maskVars
  <2>12. CASE BeginPointerHitMaskUpdate
    <3>1. MaskType'
      BY <2>12 DEF BeginPointerHitMaskUpdate, GenerationLeft, windowVars, MaskInv, MaskType, Generations
    <3>2. TargetInv'
      BY <2>12 DEF BeginPointerHitMaskUpdate, GenerationLeft, windowVars, MaskInv, MaskType, Generations, TargetInv
    <3>3. ActiveMaskIsCurrent'
      BY <2>12 DEF BeginPointerHitMaskUpdate, windowVars, MaskInv, ActiveMaskIsCurrent
    <3> QED
      BY <2>12, <3>1, <3>2, <3>3 DEF BeginPointerHitMaskUpdate, windowVars, MaskInv
  <2>13. CASE BeginRejected
    BY <2>13, MaskInvKept DEF BeginRejected, windowVars, historyVars
  <2>14. CASE BeginExhausted
    BY <2>14 DEF BeginExhausted, windowVars, historyVars, MaskInv, MaskType, Generations, TargetInv, ActiveMaskIsCurrent
  <2>15. CASE PublishPointerHitMask
    <3>1. MaskType'
      BY <2>15 DEF PublishPointerHitMask, windowVars, MaskInv, MaskType, Generations, NoPending
    <3>2. TargetInv' /\ ActiveMaskIsCurrent'
      BY <2>15 DEF PublishPointerHitMask, windowVars, MaskInv, MaskType, Generations, NoPending, TargetInv,
                   ActiveMaskIsCurrent
    <3> QED
      BY <2>15, <3>1, <3>2 DEF PublishPointerHitMask, windowVars, MaskInv
  <2>16. CASE ClearPointerHitMask
    BY <2>16, InvalidationKeepsMaskInv DEF ClearPointerHitMask, NewEpoch, windowVars, MaskInv, MaskType
  <2>17. CASE UNCHANGED vars
    BY <2>17, MaskInvKept DEF vars, windowVars, maskVars, historyVars
  <2> QED
    BY <2>1, <2>2, <2>3, <2>4, <2>5, <2>6, <2>7, <2>8, <2>9, <2>10, <2>11, <2>12, <2>13, <2>14,
       <2>15, <2>16, <2>17 DEF Next
<1> QED
  BY <1>1, <1>2, PTL DEF Spec

\* An active hit mask is always drawn for the current extent, lifetime and epoch.
THEOREM MasksAreCurrent == Spec => []ActiveMaskIsCurrent
<1>1. MaskInv => ActiveMaskIsCurrent
  BY DEF MaskInv
<1> QED
  BY <1>1, MaskInvariance, PTL

\* Accepted generations strictly increase, whatever the width of the counter.
THEOREM GenerationsOnlyGrow == Spec => GenerationsGrow
<1> DEFINE Grow == accepted' # accepted => accepted' > accepted /\ accepted' <= generation
<1>1. MaskInv /\ [Next]_vars => [Grow]_vars
  BY BridgeAssumption
     DEF MaskInv, MaskType, Generations, TargetInv, Next, vars, historyVars, Resize, Open, FlagMessage,
         ReportOcclusion, OpenFails, NativeLoss, Close, CloseFails, EnableConcurrentPresentationReads,
         AttachOcclusionProvider, DetachOcclusionProvider, BeginPointerHitMaskUpdate, BeginRejected,
         BeginExhausted, PublishPointerHitMask, ClearPointerHitMask
<1> QED
  BY <1>1, MaskInvariance, PTL DEF Spec, GenerationsGrow

-----------------------------------------------------------------------------
\* Steps that only touch the hit masks and the epoch.
LEMMA SidecarInvKept ==
  ASSUME SidecarInv, UNCHANGED <<windowVars, provider, readVars, told>>
  PROVE  SidecarInv'
  BY DEF SidecarInv, WindowType, PublicationFollowsWindow, OcclusionEventsAgree, Occlusion, windowVars, readVars

\* Every owner-thread handler leaves the sidecar and the announced occlusion in step with
\* the window.
THEOREM SidecarInvariance == Spec => []SidecarInv
<1> USE BridgeAssumption
<1>1. Init => SidecarInv
  <2> SUFFICES ASSUME Init PROVE SidecarInv
    OBVIOUS
  <2>1. WindowType
    BY DEF Init, WindowType, Hidden, ClosedDefaults
  <2>2. PublicationFollowsWindow /\ OcclusionEventsAgree
    BY DEF Init, PublicationFollowsWindow, OcclusionEventsAgree
  <2> QED
    BY <2>1, <2>2 DEF Init, SidecarInv
<1>2. SidecarInv /\ [Next]_vars => SidecarInv'
  <2> SUFFICES ASSUME SidecarInv, [Next]_vars PROVE SidecarInv'
    OBVIOUS
  <2> USE DEF SidecarInv, WindowType, Publish, Occlusion, OcclusionEventsAgree, PublicationFollowsWindow
  <2>1. ASSUME NEW extent \in Extents, Resize(extent) PROVE SidecarInv'
    BY <2>1 DEF Resize, Cached
  <2>2. ASSUME NEW extent \in Extents, NEW shown \in BOOLEAN, Open(extent, shown) PROVE SidecarInv'
    <3>1. flags' \in [Flags -> BOOLEAN]
      BY <2>2 DEF Open, Hidden
    <3>2. published' = IF readsEnabled THEN Cached(framebuffer', flags', "shown") ELSE published
      BY <2>2 DEF Open
    <3>3. published' \in [framebuffer : Extents, flags : [Flags -> BOOLEAN], occlusion : {"shown", "occluded"}]
      BY <2>2, <3>1, <3>2 DEF Open, Cached
    <3> QED
      BY <2>2, <3>1, <3>2, <3>3 DEF Open, Cached
  <2>3. ASSUME NEW flag \in Flags, NEW value \in BOOLEAN, FlagMessage(flag, value) PROVE SidecarInv'
    BY <2>3 DEF FlagMessage, Cached, historyVars
  <2>4. ASSUME NEW value \in {"shown", "occluded"}, ReportOcclusion(value) PROVE SidecarInv'
    BY <2>4 DEF ReportOcclusion, Cached, windowVars
  <2>5. CASE OpenFails
    BY <2>5 DEF OpenFails, ClosedDefaults, Hidden, windowVars, historyVars
  <2>6. CASE NativeLoss
    BY <2>6 DEF NativeLoss, ClosedDefaults, Hidden
  <2>7. CASE Close
    BY <2>7 DEF Close, FinishWindowLifetime, ClosedDefaults, Hidden
  <2>8. CASE EnableConcurrentPresentationReads
    BY <2>8 DEF EnableConcurrentPresentationReads, Cached, windowVars, historyVars
  <2>9. CASE AttachOcclusionProvider
    BY <2>9 DEF AttachOcclusionProvider, Cached, windowVars, historyVars
  <2>10. CASE DetachOcclusionProvider
    BY <2>10 DEF DetachOcclusionProvider, Cached, windowVars
  <2>11. CASE CloseFails \/ ClearPointerHitMask
    BY <2>11, SidecarInvKept DEF CloseFails, ClearPointerHitMask
  <2>12. CASE \/ BeginPointerHitMaskUpdate \/ BeginRejected \/ BeginExhausted
              \/ PublishPointerHitMask \/ UNCHANGED vars
    BY <2>12, SidecarInvKept
       DEF BeginPointerHitMaskUpdate, BeginRejected, BeginExhausted, PublishPointerHitMask, vars, historyVars
  <2> QED
    BY <2>1, <2>2, <2>3, <2>4, <2>5, <2>6, <2>7, <2>8, <2>9, <2>10, <2>11, <2>12 DEF Next
<1> QED
  BY <1>1, <1>2, PTL DEF Spec

\* Renderer threads read the owner's values, or closed defaults.
THEOREM PublicationIsExact == Spec => []PublicationFollowsWindow
<1>1. SidecarInv => PublicationFollowsWindow
  BY DEF SidecarInv
<1> QED
  BY <1>1, SidecarInvariance, PTL

\* The occlusion a consumer of events believes in is the window's.
THEOREM OcclusionIsAnnounced == Spec => []OcclusionEventsAgree
<1>1. SidecarInv => OcclusionEventsAgree
  BY DEF SidecarInv
<1> QED
  BY <1>1, SidecarInvariance, PTL

\* Reading threads and consumers of events see the window as it is, for every set of
\* extents and every counter width.
THEOREM RendererAlwaysSeesTheWindow == Spec => []RendererSeesTheWindow
<1>1. MaskInv /\ SidecarInv => RendererSeesTheWindow
  BY DEF MaskInv, SidecarInv, RendererSeesTheWindow, TypeOK
<1> QED
  BY <1>1, MaskInvariance, SidecarInvariance, PTL

-----------------------------------------------------------------------------
(* Shell registration *)

\* The keys, their values, and what holds of them between any two writes.
Bodies == AppDescriptions \cup {NoValue, PartialRecord, Malformed}
TargetKey == [present : BOOLEAN, owner : Owners \cup {NoValue}, default : Owners \cup {NoValue, Other},
              openWith : SUBSET Owners, body : Bodies]
ProgramKey == [present : BOOLEAN, owner : Owners \cup {NoValue}, app : Apps \cup {NoValue}, body : Bodies]
ApplicationKey == [present : BOOLEAN, owner : Owners \cup {NoValue}, types : SUBSET Extensions, body : Bodies]
Registry == [target : [ShellTargets -> TargetKey], program : [Owners \X ShellTargets -> ProgramKey],
             application : [Apps -> ApplicationKey]]

\* A default of an application that uses Registration comes with its owner key, a value with
\* its key, only extensions have alternatives, and an absent application supports nothing.
TargetSound(t, x) ==
  /\ x.default \in Owners => x.owner = x.default
  /\ x.owner # NoValue \/ x.default # NoValue => x.present
  /\ t \in Schemes => x.openWith = {}
ApplicationSound(x) == ~x.present => x.owner = NoValue /\ x.types = {}
RegistrySound(r) ==
  /\ r \in Registry
  /\ \A t \in ShellTargets : TargetSound(t, r.target[t])
  /\ \A a \in Apps : ApplicationSound(r.application[a])

\* The arguments and findings of a call.
CallRecord == [pc : {"capture", "write", "rollback", "done"}, op : {"extension", "scheme", "unregister"},
               owner : Owners, target : ShellTargets, app : Apps \cup {NoValue}, description : Bodies,
               sameOwner : BOOLEAN, foreign : BOOLEAN, ownProgram : BOOLEAN, start : Registry,
               todo : Seq(Registry), restored : 0 .. 3, lost : BOOLEAN,
               outcome : {"none", "refused", "failed", "ok", "cleanupFailed"}]
CallFound(c) ==
  /\ c \in CallRecord /\ RegistrySound(c.start)
  /\ c.op = "extension" => c.target \in Extensions
  /\ c.op = "scheme" => c.target \in Schemes
  /\ c.sameOwner = SameOwner(c.start.target[c.target], c.owner)
  /\ c.foreign = (IsRegistered(c.start.target[c.target]) /\ ~SameOwner(c.start.target[c.target], c.owner))
  /\ c.ownProgram = SameOwner(c.start.program[Program(c)], c.owner)

\* Another's application record is not the call's to write.
Writable(c) == ~AppBlocked(c.start, c.app, c.owner)

\* What a call may have made of the registry, at any moment of it: it writes its own program,
\* its target and its application; of a target somebody else has it leaves owner and default;
\* any other target stays free for its owner.
TargetFits(c, x) ==
  /\ c.foreign /\ ~c.lost => x.owner = c.start.target[c.target].owner /\ x.default = c.start.target[c.target].default
  /\ ~c.foreign /\ IsRegistered(x)
       => SameOwner(x, c.owner) \/ (x.default = Other /\ c.start.target[c.target].default = Other)
StageSound(c, r) ==
  /\ RegistrySound(r)
  /\ \A k \in Owners \X ShellTargets : k # Program(c) => r.program[k] = c.start.program[k]
  /\ \A a \in Apps : a # c.app \/ c.app = NoValue \/ ~Writable(c) => r.application[a] = c.start.application[a]
  /\ \A t \in ShellTargets : t # c.target => r.target[t] = c.start.target[t]
  /\ TargetFits(c, r.target[c.target])

\* What unregistering leaves.
ProgramGone(c, r) == ~SameOwner(r.program[Program(c)], c.owner)
TargetGone(c, r) ==
  /\ ~SameOwner(r.target[c.target], c.owner)
  /\ c.owner \notin r.target[c.target].openWith \cup {r.target[c.target].default}
ApplicationGone(c, r) == c.app # NoValue => c.target \notin r.application[c.app].types
AllGone(c, r) == ProgramGone(c, r) /\ TargetGone(c, r) /\ ApplicationGone(c, r)

\* A list of writes.
Writes(c, s) == s \in Seq(Registry) /\ \A i \in DOMAIN s : StageSound(c, s[i])

\* A call at each point of it, over the registry as it then is.
CallSound(c, r) ==
  /\ CallFound(c) /\ StageSound(c, r)
  /\ c.pc # "done" => Writable(c)
  /\ c.pc = "capture" => r = c.start /\ ~c.lost /\ c.restored = 0
  /\ c.pc = "write" => /\ Writes(c, c.todo) /\ ~c.lost /\ c.restored = 0
                       /\ c.op = "unregister" => AllGone(c, AfterCall(c.todo, r))
  /\ c.pc = "rollback" => /\ c.restored \in 0 .. 2
                          /\ c.restored > 0 /\ ~c.lost => r.program[Program(c)] = c.start.program[Program(c)]
                          /\ c.restored > 1 /\ ~c.lost => r.target[c.target] = c.start.target[c.target]
  /\ c.pc = "done" => /\ c.outcome \in {"refused", "failed"} /\ ~c.lost => r = c.start
                      /\ c.op = "unregister" /\ c.outcome \in {"ok", "cleanupFailed"} => AllGone(c, r)

RegistrationInv ==
  /\ RegistrySound(reg)
  /\ call = NoCall \/ crashed = NoCall
  /\ call = NoCall \/ CallSound(call, reg)
  /\ crashed = NoCall \/ (CallFound(crashed) /\ StageSound(crashed, reg))


\* One key of a registry rewritten.
ProgramPut(r, k, x) == [r EXCEPT !.program[k] = x]
ApplicationPut(r, a, x) == [r EXCEPT !.application[a] = x]
TargetPut(r, t, x) == [r EXCEPT !.target[t] = x]

\* What a call may write at any moment: its own program ...
LEMMA ProgramChanges ==
  ASSUME NEW c, CallFound(c), NEW r, StageSound(c, r), NEW x \in ProgramKey
  PROVE  LET q == ProgramPut(r, Program(c), x) IN
         /\ StageSound(c, q) /\ q.target = r.target /\ q.application = r.application
         /\ q.program[Program(c)] = x
<1> DEFINE q == ProgramPut(r, Program(c), x)
<1>1. Program(c) \in Owners \X ShellTargets
  BY DEF CallFound, CallRecord, Program
<1>2. r \in Registry
  BY DEF StageSound, RegistrySound
<1>3. /\ q \in Registry /\ q.target = r.target /\ q.application = r.application
      /\ q.program[Program(c)] = x
      /\ \A j \in Owners \X ShellTargets : j # Program(c) => q.program[j] = r.program[j]
  BY <1>1, <1>2 DEF Registry, ProgramPut
<1>4. StageSound(c, q)
  BY <1>3 DEF StageSound, RegistrySound
<1> QED
  BY <1>3, <1>4

\* ... the application it names, unless that is somebody else's ...
LEMMA ApplicationChanges ==
  ASSUME NEW c, CallFound(c), Writable(c), c.app # NoValue, NEW r, StageSound(c, r),
         NEW x \in ApplicationKey, ApplicationSound(x)
  PROVE  LET q == ApplicationPut(r, c.app, x) IN
         /\ StageSound(c, q) /\ q.target = r.target /\ q.program = r.program
         /\ q.application[c.app] = x
<1> DEFINE q == ApplicationPut(r, c.app, x)
<1>1. c.app \in Apps
  BY DEF CallFound, CallRecord
<1>2. r \in Registry
  BY DEF StageSound, RegistrySound
<1>3. /\ q \in Registry /\ q.target = r.target /\ q.program = r.program
      /\ q.application[c.app] = x
      /\ \A b \in Apps : b # c.app => q.application[b] = r.application[b]
  BY <1>1, <1>2 DEF Registry, ApplicationPut
<1>4. RegistrySound(q)
  BY <1>3 DEF StageSound, RegistrySound
<1>5. StageSound(c, q)
  BY <1>3, <1>4 DEF StageSound
<1> QED
  BY <1>3, <1>5

\* ... and its target, as long as that fits.
LEMMA TargetChanges ==
  ASSUME NEW c, CallFound(c), NEW r, StageSound(c, r),
         NEW x \in TargetKey, TargetSound(c.target, x), TargetFits(c, x)
  PROVE  LET q == TargetPut(r, c.target, x) IN
         /\ StageSound(c, q) /\ q.application = r.application /\ q.program = r.program
         /\ q.target[c.target] = x
<1> DEFINE q == TargetPut(r, c.target, x)
<1>1. c.target \in ShellTargets
  BY DEF CallFound, CallRecord
<1>2. r \in Registry
  BY DEF StageSound, RegistrySound
<1>3. /\ q \in Registry /\ q.application = r.application /\ q.program = r.program
      /\ q.target[c.target] = x
      /\ \A t \in ShellTargets : t # c.target => q.target[t] = r.target[t]
  BY <1>1, <1>2 DEF Registry, TargetPut
<1>4. RegistrySound(q)
  BY <1>3 DEF StageSound, RegistrySound
<1>5. StageSound(c, q)
  BY <1>3, <1>4 DEF StageSound
<1> QED
  BY <1>3, <1>5

-----------------------------------------------------------------------------
\* Lists of writes: short ones, one after another, and where they lead.
LEMMA NoWrites == ASSUME NEW c, NEW r PROVE Writes(c, << >>) /\ AfterCall(<< >>, r) = r
  BY DEF Writes, AfterCall

LEMMA OneWrite ==
  ASSUME NEW c, NEW r, NEW x, StageSound(c, x)
  PROVE  Writes(c, << x >>) /\ AfterCall(<< x >>, r) = x
<1>1. x \in Registry
  BY DEF StageSound, RegistrySound
<1>2. << x >> \in Seq(Registry) /\ Len(<< x >>) = 1 /\ DOMAIN << x >> = 1 .. 1 /\ << x >>[1] = x
  BY <1>1
<1>3. \A i \in 1 .. 1 : i = 1
  OBVIOUS
<1> QED
  BY <1>2, <1>3 DEF Writes, AfterCall, Last

LEMMA Joined ==
  ASSUME NEW c, NEW r, NEW s, NEW t, Writes(c, s), Writes(c, t)
  PROVE  Writes(c, s \o t) /\ AfterCall(s \o t, r) = AfterCall(t, AfterCall(s, r))
<1>1. s \in Seq(Registry) /\ t \in Seq(Registry)
  BY DEF Writes
<1>2. /\ s \o t \in Seq(Registry) /\ Len(s \o t) = Len(s) + Len(t)
      /\ \A i \in 1 .. Len(s) + Len(t) : (s \o t)[i] = IF i <= Len(s) THEN s[i] ELSE t[i - Len(s)]
  BY <1>1, ConcatProperties
<1>3. /\ Len(s) \in Nat /\ DOMAIN s = 1 .. Len(s) /\ Len(t) \in Nat /\ DOMAIN t = 1 .. Len(t)
      /\ DOMAIN (s \o t) = 1 .. Len(s) + Len(t)
  BY <1>1, <1>2, LenProperties
<1>4. ASSUME NEW i \in 1 .. Len(s) + Len(t) PROVE StageSound(c, (s \o t)[i])
  <2>1. CASE i <= Len(s)
    <3>1. i \in DOMAIN s /\ (s \o t)[i] = s[i]
      BY <2>1, <1>2, <1>3
    <3> QED
      BY <3>1 DEF Writes
  <2>2. CASE ~(i <= Len(s))
    <3>1. i - Len(s) \in DOMAIN t /\ (s \o t)[i] = t[i - Len(s)]
      BY <2>2, <1>2, <1>3
    <3> QED
      BY <3>1 DEF Writes
  <2> QED
    BY <2>1, <2>2
<1>5. CASE t = << >>
  BY <1>1, <1>5, ConcatEmptySeq, <1>2, <1>3, <1>4 DEF Writes, AfterCall
<1>6. CASE t # << >>
  <2>1. Len(t) > 0 /\ Len(s) + Len(t) \in 1 .. Len(s) + Len(t) /\ ~(Len(s) + Len(t) <= Len(s))
    BY <1>1, <1>3, <1>6, EmptySeq
  <2>2. (s \o t)[Len(s) + Len(t)] = t[Len(t)]
    BY <2>1, <1>2, <1>3
  <2>3. s \o t # << >>
    BY <1>1, <1>6, ConcatEqualIffEmpty
  <2>4. AfterCall(s \o t, r) = AfterCall(t, AfterCall(s, r))
    BY <2>2, <2>3, <1>2, <1>6 DEF AfterCall, Last
  <2> QED
    BY <2>4, <1>2, <1>3, <1>4 DEF Writes
<1> QED
  BY <1>5, <1>6

LEMMA AfterIsSound ==
  ASSUME NEW c, NEW r, NEW s, StageSound(c, r), Writes(c, s)
  PROVE  StageSound(c, AfterCall(s, r))
<1>1. CASE s = << >>
  BY <1>1 DEF AfterCall
<1>2. CASE s # << >>
  <2>1. s \in Seq(Registry) /\ Len(s) \in DOMAIN s
    BY <1>2, EmptySeq, LenProperties DEF Writes
  <2> QED
    BY <1>2, <2>1 DEF AfterCall, Last, Writes
<1> QED
  BY <1>1, <1>2

LEMMA TwoWrites ==
  ASSUME NEW c, NEW r, NEW a, NEW b,
         StageSound(c, a), StageSound(c, b)
  PROVE  Writes(c, << a, b >>) /\ AfterCall(<< a, b >>, r) = b
<1>1. a \in Registry /\ b \in Registry
  BY DEF StageSound, RegistrySound
<1> DEFINE s == << a, b >>
<1>2. /\ s \in Seq(Registry) /\ s # << >> /\ Len(s) = 2 /\ DOMAIN s = 1 .. 2
      /\ s[1] = a /\ s[2] = b
  BY <1>1
<1>3. \A i \in 1 .. 2 : i = 1 \/ i = 2
  OBVIOUS
<1> HIDE DEF s
<1>4. Writes(c, s) /\ AfterCall(s, r) = b
  BY <1>2, <1>3 DEF Writes, AfterCall, Last
<1> QED
  BY <1>4 DEF s

LEMMA ThreeWrites ==
  ASSUME NEW c, NEW r, NEW a, NEW b, NEW d,
         StageSound(c, a), StageSound(c, b), StageSound(c, d)
  PROVE  Writes(c, << a, b, d >>) /\ AfterCall(<< a, b, d >>, r) = d
<1>1. a \in Registry /\ b \in Registry /\ d \in Registry
  BY DEF StageSound, RegistrySound
<1> DEFINE s == << a, b, d >>
<1>2. /\ s \in Seq(Registry) /\ s # << >> /\ Len(s) = 3 /\ DOMAIN s = 1 .. 3
      /\ s[1] = a /\ s[2] = b /\ s[3] = d
  BY <1>1
<1>3. \A i \in 1 .. 3 : i = 1 \/ i = 2 \/ i = 3
  OBVIOUS
<1> HIDE DEF s
<1>4. Writes(c, s) /\ AfterCall(s, r) = d
  BY <1>2, <1>3 DEF Writes, AfterCall, Last
<1> QED
  BY <1>4 DEF s

LEMMA FourWrites ==
  ASSUME NEW c, NEW r, NEW a, NEW b, NEW d, NEW e,
         StageSound(c, a), StageSound(c, b), StageSound(c, d), StageSound(c, e)
  PROVE  Writes(c, << a, b, d, e >>) /\ AfterCall(<< a, b, d, e >>, r) = e
<1>1. a \in Registry /\ b \in Registry /\ d \in Registry /\ e \in Registry
  BY DEF StageSound, RegistrySound
<1> DEFINE s == << a, b, d, e >>
<1>2. /\ s \in Seq(Registry) /\ s # << >> /\ Len(s) = 4 /\ DOMAIN s = 1 .. 4
      /\ s[1] = a /\ s[2] = b /\ s[3] = d /\ s[4] = e
  BY <1>1
<1>3. \A i \in 1 .. 4 : i = 1 \/ i = 2 \/ i = 3 \/ i = 4
  OBVIOUS
<1> HIDE DEF s
<1>4. Writes(c, s) /\ AfterCall(s, r) = e
  BY <1>2, <1>3 DEF Writes, AfterCall, Last
<1> QED
  BY <1>4 DEF s

LEMMA FiveWrites ==
  ASSUME NEW c, NEW r, NEW a, NEW b, NEW d, NEW e, NEW f,
         StageSound(c, a), StageSound(c, b), StageSound(c, d), StageSound(c, e), StageSound(c, f)
  PROVE  Writes(c, << a, b, d, e, f >>) /\ AfterCall(<< a, b, d, e, f >>, r) = f
<1>1. a \in Registry /\ b \in Registry /\ d \in Registry /\ e \in Registry /\ f \in Registry
  BY DEF StageSound, RegistrySound
<1> DEFINE s == << a, b, d, e, f >>
<1>2. /\ s \in Seq(Registry) /\ s # << >> /\ Len(s) = 5 /\ DOMAIN s = 1 .. 5
      /\ s[1] = a /\ s[2] = b /\ s[3] = d /\ s[4] = e /\ s[5] = f
  BY <1>1
<1>3. \A i \in 1 .. 5 : i = 1 \/ i = 2 \/ i = 3 \/ i = 4 \/ i = 5
  OBVIOUS
<1> HIDE DEF s
<1>4. Writes(c, s) /\ AfterCall(s, r) = f
  BY <1>2, <1>3 DEF Writes, AfterCall, Last
<1> QED
  BY <1>4 DEF s

-----------------------------------------------------------------------------
(* The stages of a call *)

\* A write to the call's program.
ProgramWrite(c, r, x, q) == q = ProgramPut(r, Program(c), x)

LEMMA ProgramWriteSound ==
  ASSUME NEW c, CallFound(c), NEW r, StageSound(c, r), NEW x \in ProgramKey, NEW q, ProgramWrite(c, r, x, q)
  PROVE  StageSound(c, q) /\ q.program[Program(c)] = x
  BY ProgramChanges DEF ProgramWrite

\* A program is written value by value; nobody else sees it.
LEMMA ProgramStagesSound ==
  ASSUME NEW c, CallFound(c), NEW r, StageSound(c, r)
  PROVE  Writes(c, ProgramStages(r, c))
<1> DEFINE k == Program(c)
           n1 == [r.program[k] EXCEPT !.present = TRUE]
           n2 == [n1 EXCEPT !.owner = c.owner]
           n3 == [n2 EXCEPT !.app = c.app]
           n4 == [n3 EXCEPT !.body = PartialRecord]
           q1 == ProgramPut(r, k, n1)
           q2 == ProgramPut(q1, k, n2)
           q3 == ProgramPut(q2, k, n3)
           q4 == ProgramPut(q3, k, n4)
<1>1. k \in Owners \X ShellTargets /\ c.owner \in Owners /\ c.app \in Apps \cup {NoValue}
  BY DEF CallFound, CallRecord, Program
<1>2. r.program[k] \in ProgramKey
  BY <1>1 DEF StageSound, RegistrySound, Registry
<1>3. n1 \in ProgramKey /\ n2 \in ProgramKey /\ n3 \in ProgramKey /\ n4 \in ProgramKey
  BY <1>1, <1>2 DEF ProgramKey, Bodies
<1> HIDE DEF n1, n2, n3, n4
<1>a. ProgramWrite(c, r, n1, q1)
  BY DEF ProgramWrite
<1>b. ProgramWrite(c, q1, n2, q2)
  BY DEF ProgramWrite
<1>c. ProgramWrite(c, q2, n3, q3)
  BY DEF ProgramWrite
<1>d. ProgramWrite(c, q3, n4, q4)
  BY DEF ProgramWrite
<1> HIDE DEF q1, q2, q3, q4
<1>4. StageSound(c, q1) /\ q1.program[k] = n1
  BY <1>3, <1>a, ProgramWriteSound
<1>5. StageSound(c, q2) /\ q2.program[k] = n2
  BY <1>3, <1>4, <1>b, ProgramWriteSound
<1>6. StageSound(c, q3) /\ q3.program[k] = n3
  BY <1>3, <1>5, <1>c, ProgramWriteSound
<1>7. StageSound(c, q4)
  BY <1>3, <1>6, <1>d, ProgramWriteSound
<1>8. Writes(c, << q1, q2, q3, q4 >>)
  BY <1>4, <1>5, <1>6, <1>7, FourWrites
<1> HIDE DEF k
<1>9. q1 = [r EXCEPT !.program[k].present = TRUE]
  BY DEF q1, n1, ProgramPut
<1>10. q2 = [q1 EXCEPT !.program[k].owner = c.owner]
  BY <1>4 DEF q2, n2, ProgramPut
<1>11. q3 = [q2 EXCEPT !.program[k].app = c.app]
  BY <1>5 DEF q3, n3, ProgramPut
<1>12. q4 = [q3 EXCEPT !.program[k].body = PartialRecord]
  BY <1>6 DEF q4, n4, ProgramPut
<1> QED
  BY <1>8, <1>9, <1>10, <1>11, <1>12 DEF ProgramStages, k

LEMMA CommandStagesSound ==
  ASSUME NEW c, CallFound(c), NEW r, StageSound(c, r)
  PROVE  Writes(c, CommandStages(r, c))
<1> DEFINE k == Program(c)
           n == [r.program[k] EXCEPT !.body = c.description]
           q == ProgramPut(r, k, n)
<1>1. k \in Owners \X ShellTargets /\ c.description \in Bodies
  BY DEF CallFound, CallRecord, Program
<1>2. r.program[k] \in ProgramKey
  BY <1>1 DEF StageSound, RegistrySound, Registry
<1>3. n \in ProgramKey
  BY <1>1, <1>2 DEF ProgramKey
<1> HIDE DEF n
<1>4. StageSound(c, q)
  BY <1>3, ProgramChanges
<1>5. Writes(c, << q >>)
  BY <1>4, OneWrite
<1>6. q = [r EXCEPT !.program[k].body = c.description]
  BY DEF n, ProgramPut
<1> QED
  BY <1>5, <1>6 DEF CommandStages

\* The application a registration names exists before anything is said of it.
LEMMA ApplicationStagesSound ==
  ASSUME NEW c, CallFound(c), Writable(c), c.target \in Extensions, NEW r, StageSound(c, r)
  PROVE  Writes(c, ApplicationStages(r, c))
<1>1. CASE c.app = NoValue
  BY <1>1, NoWrites DEF ApplicationStages
<1>2. CASE c.app # NoValue
  <2> DEFINE a == c.app
             n1 == [r.application[a] EXCEPT !.present = TRUE]
             n2 == [n1 EXCEPT !.owner = c.owner]
             n3 == [n2 EXCEPT !.body = PartialRecord]
             n4 == [n3 EXCEPT !.body = c.description]
             n5 == [n4 EXCEPT !.types = @ \cup {c.target}]
             q1 == ApplicationPut(r, a, n1)
             q2 == ApplicationPut(q1, a, n2)
             q3 == ApplicationPut(q2, a, n3)
             q4 == ApplicationPut(q3, a, n4)
             q5 == ApplicationPut(q4, a, n5)
  <2>1. a \in Apps /\ c.owner \in Owners /\ c.description \in Bodies
    BY <1>2 DEF CallFound, CallRecord
  <2>2. r.application[a] \in ApplicationKey
    BY <2>1 DEF StageSound, RegistrySound, Registry
  <2>3. n1 \in ApplicationKey /\ n1.present = TRUE
    BY <2>2 DEF ApplicationKey
  <2>4. n2 \in ApplicationKey /\ n2.present = TRUE
    BY <2>1, <2>3 DEF ApplicationKey
  <2>5. n3 \in ApplicationKey /\ n3.present = TRUE
    BY <2>4 DEF ApplicationKey, Bodies
  <2>6. n4 \in ApplicationKey /\ n4.present = TRUE
    BY <2>1, <2>5 DEF ApplicationKey
  <2>7. n5 \in ApplicationKey /\ n5.present = TRUE
    BY <2>6 DEF ApplicationKey
  <2>8. /\ ApplicationSound(n1) /\ ApplicationSound(n2) /\ ApplicationSound(n3)
        /\ ApplicationSound(n4) /\ ApplicationSound(n5)
    BY <2>3, <2>4, <2>5, <2>6, <2>7 DEF ApplicationSound
  <2> HIDE DEF n1, n2, n3, n4, n5
  <2>e. /\ q1 = ApplicationPut(r, c.app, n1) /\ q2 = ApplicationPut(q1, c.app, n2)
        /\ q3 = ApplicationPut(q2, c.app, n3) /\ q4 = ApplicationPut(q3, c.app, n4)
        /\ q5 = ApplicationPut(q4, c.app, n5)
    OBVIOUS
  <2> HIDE DEF q1, q2, q3, q4, q5
  <2>9. StageSound(c, q1) /\ q1.application[a] = n1
    BY <1>2, <2>3, <2>8, <2>e, ApplicationChanges
  <2>10. StageSound(c, q2) /\ q2.application[a] = n2
    BY <1>2, <2>4, <2>8, <2>9, <2>e, ApplicationChanges
  <2>11. StageSound(c, q3) /\ q3.application[a] = n3
    BY <1>2, <2>5, <2>8, <2>10, <2>e, ApplicationChanges
  <2>12. StageSound(c, q4) /\ q4.application[a] = n4
    BY <1>2, <2>6, <2>8, <2>11, <2>e, ApplicationChanges
  <2>13. StageSound(c, q5)
    BY <1>2, <2>7, <2>8, <2>12, <2>e, ApplicationChanges
  <2>14. Writes(c, << q1, q2, q3, q4, q5 >>)
    BY <2>9, <2>10, <2>11, <2>12, <2>13, FiveWrites
  <2> HIDE DEF a
  <2>15. q1 = [r EXCEPT !.application[a].present = TRUE]
    BY DEF q1, n1, ApplicationPut
  <2>16. q2 = [q1 EXCEPT !.application[a].owner = c.owner]
    BY <2>9 DEF q2, n2, ApplicationPut
  <2>17. q3 = [q2 EXCEPT !.application[a].body = PartialRecord]
    BY <2>10 DEF q3, n3, ApplicationPut
  <2>18. q4 = [q3 EXCEPT !.application[a].body = c.description]
    BY <2>11 DEF q4, n4, ApplicationPut
  <2>19. q5 = [q4 EXCEPT !.application[a].types = @ \cup {c.target}]
    BY <2>12 DEF q5, n5, ApplicationPut
  <2> QED
    BY <1>2, <2>14, <2>15, <2>16, <2>17, <2>18, <2>19 DEF ApplicationStages, a
<1> QED
  BY <1>1, <1>2

\* What the facts of a call say of its target.
LEMMA TargetOfCall ==
  ASSUME NEW c, CallFound(c), NEW r, StageSound(c, r)
  PROVE  /\ c.target \in ShellTargets /\ c.owner \in Owners /\ NoValue \notin Owners /\ Other \notin Owners
         /\ r.target[c.target] \in TargetKey /\ TargetSound(c.target, r.target[c.target])
         /\ TargetFits(c, r.target[c.target])
<1>1. c.target \in ShellTargets /\ c.owner \in Owners
  BY DEF CallFound, CallRecord
<1>2. NoValue \notin Owners /\ Other \notin Owners
  BY <1>1, RegistrationAssumption
<1>3. r.target[c.target] \in TargetKey
  BY <1>1 DEF StageSound, RegistrySound, Registry
<1>4. TargetSound(c.target, r.target[c.target]) /\ TargetFits(c, r.target[c.target])
  BY <1>1 DEF StageSound, RegistrySound
<1> QED
  BY <1>1, <1>2, <1>3, <1>4

\* A target is claimed by its owner key before it gets a default.
LEMMA TargetStagesSound ==
  ASSUME NEW c, CallFound(c), NEW r, StageSound(c, r)
  PROVE  Writes(c, TargetStages(r, c))
<1>1. CASE c.foreign
  BY <1>1, NoWrites DEF TargetStages
<1>2. CASE ~c.foreign
  <2> DEFINE t == c.target
             n0 == r.target[t]
             n1 == [n0 EXCEPT !.present = TRUE]
             n2 == [n1 EXCEPT !.owner = c.owner]
             n3 == [n2 EXCEPT !.default = c.owner]
             q1 == TargetPut(r, t, n1)
             q2 == TargetPut(q1, t, n2)
             q3 == TargetPut(q2, t, n3)
  <2>1. /\ t \in ShellTargets /\ c.owner \in Owners /\ NoValue \notin Owners /\ Other \notin Owners
        /\ n0 \in TargetKey /\ TargetSound(t, n0) /\ TargetFits(c, n0)
    BY TargetOfCall
  <2> HIDE DEF n0
  <2>2. /\ n1 \in TargetKey /\ n1.present = TRUE /\ n1.owner = n0.owner /\ n1.default = n0.default
        /\ n1.openWith = n0.openWith
    BY <2>1 DEF TargetKey
  <2> HIDE DEF n1
  <2>3. /\ n2 \in TargetKey /\ n2.present = TRUE /\ n2.owner = c.owner /\ n2.default = n1.default
        /\ n2.openWith = n1.openWith
    BY <2>1, <2>2 DEF TargetKey
  <2> HIDE DEF n2
  <2>4. /\ n3 \in TargetKey /\ n3.present = TRUE /\ n3.owner = c.owner /\ n3.default = c.owner
        /\ n3.openWith = n2.openWith
    BY <2>1, <2>3 DEF TargetKey
  <2> HIDE DEF n3
  <2>5. TargetSound(t, n1) /\ TargetFits(c, n1)
    BY <1>2, <2>1, <2>2 DEF TargetSound, TargetFits, IsRegistered, SameOwner
  <2>6. n1.default \in Owners => n1.default = c.owner
    BY <1>2, <2>1, <2>2 DEF TargetSound, TargetFits, IsRegistered, SameOwner
  <2>7. TargetSound(t, n2) /\ TargetFits(c, n2)
    BY <1>2, <2>1, <2>2, <2>3, <2>5, <2>6 DEF TargetSound, TargetFits, IsRegistered, SameOwner
  <2>8. TargetSound(t, n3) /\ TargetFits(c, n3)
    BY <1>2, <2>1, <2>2, <2>3, <2>4 DEF TargetSound, TargetFits, IsRegistered, SameOwner
  <2>9. StageSound(c, q1) /\ q1.target[t] = n1
    BY <2>2, <2>5, TargetChanges
  <2> HIDE DEF q1
  <2>10. StageSound(c, q2) /\ q2.target[t] = n2
    BY <2>3, <2>7, <2>9, TargetChanges
  <2> HIDE DEF q2
  <2>11. StageSound(c, q3)
    BY <2>4, <2>8, <2>10, TargetChanges
  <2> HIDE DEF q3
  <2>12. Writes(c, << q1, q2, q3 >>)
    BY <2>9, <2>10, <2>11, ThreeWrites
  <2> HIDE DEF t
  <2>13. q1 = [r EXCEPT !.target[t].present = TRUE]
    BY DEF q1, n1, n0, TargetPut
  <2>14. q2 = [q1 EXCEPT !.target[t].owner = c.owner]
    BY <2>9 DEF q2, n2, TargetPut
  <2>15. q3 = [q2 EXCEPT !.target[t].default = c.owner]
    BY <2>10 DEF q3, n3, TargetPut
  <2> QED
    BY <1>2, <2>12, <2>13, <2>14, <2>15 DEF TargetStages, t
<1> QED
  BY <1>1, <1>2

\* Being an alternative changes neither owner nor default.
LEMMA AlternativeStagesSound ==
  ASSUME NEW c, CallFound(c), c.target \in Extensions, NEW r, StageSound(c, r)
  PROVE  Writes(c, AlternativeStages(r, c))
<1> DEFINE t == c.target
           n0 == r.target[t]
           n1 == [n0 EXCEPT !.present = TRUE, !.openWith = n0.openWith \cup {c.owner}]
           q1 == TargetPut(r, t, n1)
<1>1. /\ t \in ShellTargets /\ c.owner \in Owners /\ NoValue \notin Owners /\ Other \notin Owners
      /\ n0 \in TargetKey /\ TargetSound(t, n0) /\ TargetFits(c, n0)
  BY TargetOfCall
<1>2. t \notin Schemes
  BY RegistrationAssumption
<1>3. q1 = [r EXCEPT !.target[t].present = TRUE, !.target[t].openWith = @ \cup {c.owner}]
  BY DEF TargetPut
<1> HIDE DEF n0
<1>4. n1 \in TargetKey /\ n1.present = TRUE /\ n1.owner = n0.owner /\ n1.default = n0.default
  BY <1>1 DEF TargetKey
<1> HIDE DEF n1
<1>5. TargetSound(t, n1) /\ TargetFits(c, n1)
  BY <1>1, <1>2, <1>4 DEF TargetSound, TargetFits, IsRegistered, SameOwner
<1>6. StageSound(c, q1)
  BY <1>4, <1>5, TargetChanges
<1> HIDE DEF q1
<1>7. Writes(c, << q1 >>)
  BY <1>6, OneWrite
<1> QED
  BY <1>3, <1>7 DEF AlternativeStages

LEMMA SchemeStagesSound ==
  ASSUME NEW c, CallFound(c), NEW r, StageSound(c, r)
  PROVE  Writes(c, SchemeStages(r, c))
<1>1. CASE c.foreign
  BY <1>1, NoWrites DEF SchemeStages
<1>2. CASE ~c.foreign
  <2> DEFINE t == c.target
             n0 == r.target[t]
             n1 == [n0 EXCEPT !.body = PartialRecord]
             n2 == [n1 EXCEPT !.body = c.description]
             q1 == TargetPut(r, t, n1)
             q2 == TargetPut(q1, t, n2)
  <2>1. /\ t \in ShellTargets /\ c.owner \in Owners /\ NoValue \notin Owners /\ Other \notin Owners
        /\ n0 \in TargetKey /\ TargetSound(t, n0) /\ TargetFits(c, n0)
    BY TargetOfCall
  <2>2. c.description \in Bodies
    BY DEF CallFound, CallRecord
  <2> HIDE DEF n0
  <2>3. /\ n1 \in TargetKey /\ n1.present = n0.present /\ n1.owner = n0.owner
        /\ n1.default = n0.default /\ n1.openWith = n0.openWith
    BY <2>1 DEF TargetKey, Bodies
  <2> HIDE DEF n1
  <2>4. /\ n2 \in TargetKey /\ n2.present = n0.present /\ n2.owner = n0.owner
        /\ n2.default = n0.default /\ n2.openWith = n0.openWith
    BY <2>2, <2>3 DEF TargetKey
  <2> HIDE DEF n2
  <2>5. TargetSound(t, n1) /\ TargetFits(c, n1)
    BY <2>1, <2>3 DEF TargetSound, TargetFits, IsRegistered, SameOwner
  <2>6. TargetSound(t, n2) /\ TargetFits(c, n2)
    BY <2>1, <2>4 DEF TargetSound, TargetFits, IsRegistered, SameOwner
  <2>7. StageSound(c, q1) /\ q1.target[t] = n1
    BY <2>3, <2>5, TargetChanges
  <2> HIDE DEF q1
  <2>8. StageSound(c, q2)
    BY <2>4, <2>6, <2>7, TargetChanges
  <2> HIDE DEF q2
  <2>9. Writes(c, << q1, q2 >>)
    BY <2>7, <2>8, TwoWrites
  <2> HIDE DEF t
  <2>10. q1 = [r EXCEPT !.target[t].body = PartialRecord]
    BY DEF q1, n1, n0, TargetPut
  <2>11. q2 = [q1 EXCEPT !.target[t].body = c.description]
    BY <2>7 DEF q2, n2, TargetPut
  <2> QED
    BY <1>2, <2>9, <2>10, <2>11 DEF SchemeStages, t
<1> QED
  BY <1>1, <1>2

-----------------------------------------------------------------------------
\* Registering an extension or a scheme.
LEMMA ExtensionStagesSound ==
  ASSUME NEW c, CallFound(c), Writable(c), c.target \in Extensions, NEW r, StageSound(c, r)
  PROVE  Writes(c, ExtensionStages(r, c))
<1> DEFINE p == ProgramStages(r, c)
           m == p \o CommandStages(AfterCall(p, r), c)
           a == m \o ApplicationStages(AfterCall(m, r), c)
           t == a \o TargetStages(AfterCall(a, r), c)
<1>1. Writes(c, p) /\ StageSound(c, AfterCall(p, r))
  BY ProgramStagesSound, AfterIsSound
<1> HIDE DEF p
<1>2. Writes(c, m)
  BY <1>1, CommandStagesSound, Joined
<1> HIDE DEF m
<1>3. Writes(c, a)
  BY <1>2, AfterIsSound, ApplicationStagesSound, Joined
<1> HIDE DEF a
<1>4. Writes(c, t)
  BY <1>3, AfterIsSound, TargetStagesSound, Joined
<1> HIDE DEF t
<1>5. Writes(c, t \o AlternativeStages(AfterCall(t, r), c))
  BY <1>4, AfterIsSound, AlternativeStagesSound, Joined
<1> QED
  BY <1>5 DEF ExtensionStages, t, a, m, p

LEMMA UriStagesSound ==
  ASSUME NEW c, CallFound(c), NEW r, StageSound(c, r)
  PROVE  Writes(c, UriStages(r, c))
<1> DEFINE p == ProgramStages(r, c)
           m == p \o CommandStages(AfterCall(p, r), c)
           t == m \o TargetStages(AfterCall(m, r), c)
<1>1. Writes(c, p) /\ StageSound(c, AfterCall(p, r))
  BY ProgramStagesSound, AfterIsSound
<1> HIDE DEF p
<1>2. Writes(c, m)
  BY <1>1, CommandStagesSound, Joined
<1> HIDE DEF m
<1>3. Writes(c, t)
  BY <1>2, AfterIsSound, TargetStagesSound, Joined
<1> HIDE DEF t
<1>4. Writes(c, t \o SchemeStages(AfterCall(t, r), c))
  BY <1>3, AfterIsSound, SchemeStagesSound, Joined
<1> QED
  BY <1>4 DEF UriStages, t, m, p

-----------------------------------------------------------------------------
\* Unregistering: an application record that supports nothing any more goes ...
LEMMA DeleteApplicationIsSound ==
  ASSUME NEW c, CallFound(c), Writable(c), c.app # NoValue, NEW r, StageSound(c, r),
         r.application[c.app].present
  PROVE  LET s == DeleteApplicationStages(r, c.app)
             q == AfterCall(s, r)
         IN  /\ Writes(c, s) /\ q.application[c.app].types = {}
             /\ q.target = r.target /\ q.program = r.program
<1> DEFINE a == c.app
           n1 == [r.application[a] EXCEPT !.body = PartialRecord]
           n2 == [n1 EXCEPT !.body = NoValue]
           n3 == [n2 EXCEPT !.owner = NoValue]
           q1 == ApplicationPut(r, a, n1)
           q2 == ApplicationPut(q1, a, n2)
           q3 == ApplicationPut(q2, a, n3)
           q4 == ApplicationPut(q3, a, NoApp)
           s == DeleteApplicationStages(r, a)
<1>1. a \in Apps
  BY DEF CallFound, CallRecord
<1>2. r.application[a] \in ApplicationKey
  BY <1>1 DEF StageSound, RegistrySound, Registry
<1>3. n1 \in ApplicationKey /\ n1.present
  BY <1>2 DEF ApplicationKey, Bodies
<1>4. n2 \in ApplicationKey /\ n2.present
  BY <1>3 DEF ApplicationKey, Bodies
<1>5. n3 \in ApplicationKey /\ n3.present
  BY <1>4 DEF ApplicationKey
<1>6. NoApp \in ApplicationKey /\ NoApp.types = {} /\ ApplicationSound(NoApp)
  BY DEF ApplicationKey, ApplicationSound, NoApp, Bodies
<1>7. ApplicationSound(n1) /\ ApplicationSound(n2) /\ ApplicationSound(n3)
  BY <1>3, <1>4, <1>5 DEF ApplicationSound
<1> HIDE DEF n1, n2, n3
<1>8. /\ StageSound(c, q1) /\ q1.target = r.target /\ q1.program = r.program
      /\ q1.application[a] = n1
  BY <1>3, <1>7, ApplicationChanges
<1> HIDE DEF q1
<1>9. /\ StageSound(c, q2) /\ q2.target = r.target /\ q2.program = r.program
      /\ q2.application[a] = n2
  BY <1>4, <1>7, <1>8, ApplicationChanges
<1> HIDE DEF q2
<1>10. /\ StageSound(c, q3) /\ q3.target = r.target /\ q3.program = r.program
       /\ q3.application[a] = n3
  BY <1>5, <1>7, <1>9, ApplicationChanges
<1> HIDE DEF q3
<1>11. /\ StageSound(c, q4) /\ q4.target = r.target /\ q4.program = r.program
       /\ q4.application[a] = NoApp
  BY <1>6, <1>10, ApplicationChanges
<1> HIDE DEF q4, a
<1>12. /\ q1 = [r EXCEPT !.application[a].body = PartialRecord]
       /\ q2 = [q1 EXCEPT !.application[a].body = NoValue]
  BY <1>8 DEF q1, n1, q2, n2, ApplicationPut
<1>13. /\ q3 = [q2 EXCEPT !.application[a].owner = NoValue]
       /\ q4 = [q3 EXCEPT !.application[a] = NoApp]
  BY <1>9 DEF q3, n3, q4, ApplicationPut
<1>14. s = << q1, q2, q3, q4 >>
  BY <1>12, <1>13 DEF DeleteApplicationStages
<1> HIDE DEF s
<1>15. Writes(c, << q1, q2, q3, q4 >>) /\ AfterCall(<< q1, q2, q3, q4 >>, r) = q4
  BY <1>8, <1>9, <1>10, <1>11, FourWrites
<1>16. Writes(c, s) /\ AfterCall(s, r) = q4
  BY <1>14, <1>15
<1>17. q4.application[a].types = {} /\ q4.target = r.target /\ q4.program = r.program
  BY <1>6, <1>11
<1> QED
  BY <1>16, <1>17 DEF s, a

\* ... and it goes with the last type, which the target's was.
LEMMA RemoveApplicationIsSound ==
  ASSUME NEW c, CallFound(c), Writable(c), NEW r, StageSound(c, r)
  PROVE  LET s == RemoveApplicationStages(r, c)
             q == AfterCall(s, r)
         IN  /\ Writes(c, s) /\ StageSound(c, q) /\ ApplicationGone(c, q)
             /\ q.target = r.target /\ q.program = r.program
<1> DEFINE s == RemoveApplicationStages(r, c)
           q == AfterCall(s, r)
<1>1. CASE c.app = NoValue \/ ~r.application[c.app].present
  <2>1. s = << >>
    BY <1>1 DEF RemoveApplicationStages
  <2> HIDE DEF s
  <2>2. Writes(c, s) /\ q = r
    BY <2>1, NoWrites
  <2>3. c.app # NoValue => c.app \in Apps /\ ApplicationSound(r.application[c.app])
    BY DEF CallFound, CallRecord, StageSound, RegistrySound
  <2>4. ApplicationGone(c, r)
    BY <1>1, <2>3 DEF ApplicationGone, ApplicationSound
  <2> QED
    BY <2>2, <2>4 DEF s
<1>2. CASE ~(c.app = NoValue \/ ~r.application[c.app].present)
  <2> DEFINE n1 == [r.application[c.app] EXCEPT !.types = @ \ {c.target}]
             q1 == ApplicationPut(r, c.app, n1)
             s2 == DeleteApplicationStages(q1, c.app)
  <2>1. c.app \in Apps /\ c.app # NoValue
    BY <1>2 DEF CallFound, CallRecord
  <2>2. r.application[c.app] \in ApplicationKey /\ r.application[c.app].present = TRUE
    BY <1>2, <2>1 DEF StageSound, RegistrySound, Registry, ApplicationKey
  <2>3. n1 \in ApplicationKey /\ n1.present = TRUE /\ c.target \notin n1.types
    BY <2>2 DEF ApplicationKey
  <2>4. ApplicationSound(n1)
    BY <2>3 DEF ApplicationSound
  <2>5. q1 = [r EXCEPT !.application[c.app].types = @ \ {c.target}]
    BY DEF ApplicationPut
  <2> HIDE DEF n1
  <2>6. /\ StageSound(c, q1) /\ q1.target = r.target /\ q1.program = r.program
        /\ q1.application[c.app] = n1
    BY <2>1, <2>3, <2>4, ApplicationChanges
  <2> HIDE DEF q1
  <2>7. Writes(c, << q1 >>) /\ AfterCall(<< q1 >>, r) = q1
    BY <2>6, OneWrite
  <2>8. CASE q1.application[c.app].types # {}
    <3>1. s = << q1 >> \o << >>
      BY <1>2, <2>5, <2>8 DEF RemoveApplicationStages
    <3> HIDE DEF s
    <3>2. Writes(c, << q1 >> \o << >>) /\ AfterCall(<< q1 >> \o << >>, r) = q1
      BY <2>7, NoWrites, Joined
    <3>3. Writes(c, s) /\ q = q1
      BY <3>1, <3>2
    <3>4. ApplicationGone(c, q1)
      BY <2>3, <2>6 DEF ApplicationGone
    <3> QED
      BY <2>6, <3>3, <3>4 DEF s
  <2>9. CASE ~(q1.application[c.app].types # {})
    <3>1. s = << q1 >> \o s2
      BY <1>2, <2>5, <2>9 DEF RemoveApplicationStages
    <3> DEFINE q2 == AfterCall(s2, q1)
    <3>2. /\ Writes(c, s2) /\ q2.application[c.app].types = {}
          /\ q2.target = q1.target /\ q2.program = q1.program
      BY <2>1, <2>3, <2>6, DeleteApplicationIsSound
    <3> HIDE DEF s, s2
    <3>3. Writes(c, << q1 >> \o s2) /\ AfterCall(<< q1 >> \o s2, r) = q2
      BY <2>7, <3>2, Joined
    <3>4. StageSound(c, q2)
      BY <2>6, <3>2, AfterIsSound
    <3>5. Writes(c, s) /\ q = q2
      BY <3>1, <3>3
    <3>6. ApplicationGone(c, q2)
      BY <3>2 DEF ApplicationGone
    <3> HIDE DEF q2
    <3> QED
      BY <2>6, <3>2, <3>4, <3>5, <3>6 DEF s
  <2> QED
    BY <2>8, <2>9
<1> QED
  BY <1>1, <1>2

LEMMA RemoveProgramIsSound ==
  ASSUME NEW c, CallFound(c), NEW r, StageSound(c, r),
         r.program[Program(c)] = c.start.program[Program(c)]
  PROVE  LET s == RemoveProgramStages(r, c)
             q == AfterCall(s, r)
         IN  /\ Writes(c, s) /\ ProgramGone(c, q)
             /\ q.target = r.target /\ q.application = r.application
<1> DEFINE s == RemoveProgramStages(r, c)
           q == AfterCall(s, r)
<1>0. c.ownProgram = SameOwner(c.start.program[Program(c)], c.owner)
  BY DEF CallFound
<1>1. CASE ~c.ownProgram
  <2>1. s = << >>
    BY <1>1 DEF RemoveProgramStages
  <2> HIDE DEF s
  <2>2. Writes(c, s) /\ q = r
    BY <2>1, NoWrites
  <2>3. ProgramGone(c, r)
    BY <1>0, <1>1 DEF ProgramGone
  <2> QED
    BY <2>2, <2>3 DEF s
<1>2. CASE c.ownProgram
  <2> DEFINE x == ProgramPut(r, Program(c), NoProgram)
  <2>1. NoProgram \in ProgramKey /\ NoProgram.present = FALSE
    BY DEF ProgramKey, NoProgram, Bodies
  <2>2. /\ StageSound(c, x) /\ x.target = r.target /\ x.application = r.application
        /\ x.program[Program(c)] = NoProgram
    BY <2>1, ProgramChanges
  <2>3. s = << x >>
    BY <1>2 DEF RemoveProgramStages, ProgramPut
  <2> HIDE DEF s, x
  <2>4. Writes(c, s) /\ q = x
    BY <2>2, <2>3, OneWrite
  <2>5. ProgramGone(c, x)
    BY <2>1, <2>2 DEF ProgramGone, SameOwner
  <2> QED
    BY <2>2, <2>4, <2>5 DEF s
<1> QED
  BY <1>1, <1>2

LEMMA RemoveSchemeIsSound ==
  ASSUME NEW c, CallFound(c), c.target \notin Extensions, NEW r, StageSound(c, r),
         r.target[c.target] = c.start.target[c.target]
  PROVE  LET s == RemoveSchemeStages(r, c)
             q == AfterCall(s, r)
         IN  /\ Writes(c, s) /\ StageSound(c, q) /\ TargetGone(c, q)
             /\ q.program = r.program /\ q.application = r.application
<1> DEFINE s == RemoveSchemeStages(r, c)
           q == AfterCall(s, r)
<1>0. /\ c.sameOwner = SameOwner(c.start.target[c.target], c.owner)
      /\ c.foreign = (IsRegistered(c.start.target[c.target]) /\ ~SameOwner(c.start.target[c.target], c.owner))
  BY DEF CallFound
<1>1. /\ c.target \in ShellTargets /\ c.owner \in Owners /\ NoValue \notin Owners /\ Other \notin Owners
      /\ r.target[c.target] \in TargetKey /\ TargetSound(c.target, r.target[c.target])
      /\ TargetFits(c, r.target[c.target])
  BY TargetOfCall
<1>2. c.target \in Schemes
  BY <1>1 DEF ShellTargets
<1>3. CASE ~c.sameOwner
  <2>1. s = << >>
    BY <1>3 DEF RemoveSchemeStages
  <2> HIDE DEF s
  <2>2. Writes(c, s) /\ q = r
    BY <2>1, NoWrites
  <2>3. TargetGone(c, r)
    BY <1>0, <1>1, <1>2, <1>3 DEF TargetGone, TargetSound, SameOwner
  <2> QED
    BY <2>2, <2>3 DEF s
<1>4. CASE c.sameOwner
  <2> DEFINE x == TargetPut(r, c.target, AbsentTarget)
  <2>1. /\ AbsentTarget \in TargetKey /\ AbsentTarget.present = FALSE /\ AbsentTarget.default = NoValue
        /\ AbsentTarget.owner = NoValue /\ AbsentTarget.openWith = {}
    BY DEF TargetKey, AbsentTarget, Bodies
  <2>2. TargetSound(c.target, AbsentTarget)
    BY <1>1, <2>1 DEF TargetSound
  <2>3. TargetFits(c, AbsentTarget)
    BY <1>0, <1>4, <2>1 DEF TargetFits, IsRegistered
  <2>4. /\ StageSound(c, x) /\ x.program = r.program /\ x.application = r.application
        /\ x.target[c.target] = AbsentTarget
    BY <2>1, <2>2, <2>3, TargetChanges
  <2>5. s = << x >>
    BY <1>4 DEF RemoveSchemeStages, TargetPut
  <2> HIDE DEF s, x
  <2>6. Writes(c, s) /\ q = x
    BY <2>4, <2>5, OneWrite
  <2>7. TargetGone(c, x)
    BY <1>1, <2>1, <2>4 DEF TargetGone, SameOwner
  <2> QED
    BY <2>4, <2>6, <2>7 DEF s
<1> QED
  BY <1>3, <1>4

\* An extension: the alternative goes, the default and the owner key if they are the caller's.
LEMMA RemoveExtensionIsSound ==
  ASSUME NEW c, CallFound(c), NEW r, StageSound(c, r),
         r.target[c.target] = c.start.target[c.target]
  PROVE  LET s == RemoveExtensionStages(r, c)
             q == AfterCall(s, r)
         IN  /\ Writes(c, s) /\ StageSound(c, q) /\ TargetGone(c, q)
             /\ q.program = r.program /\ q.application = r.application
<1> DEFINE t == c.target
           n0 == r.target[t]
           n1 == [n0 EXCEPT !.openWith = @ \ {c.owner}]
           n2 == [n1 EXCEPT !.default = IF @ = c.owner THEN NoValue ELSE @]
           n3 == [n2 EXCEPT !.owner = NoValue]
           q1 == TargetPut(r, t, n1)
           q2 == TargetPut(q1, t, n2)
           q3 == TargetPut(q2, t, n3)
           last == IF c.sameOwner THEN q3 ELSE q1
           m == last.target[t]
           x == Pruned(m)
           q4 == TargetPut(last, t, x)
           d == IF c.sameOwner THEN << q1 >> \o << q2, q3 >> ELSE << q1 >>
           s == RemoveExtensionStages(r, c)
<1>1. /\ t \in ShellTargets /\ c.owner \in Owners /\ NoValue \notin Owners /\ Other \notin Owners
      /\ n0 \in TargetKey /\ TargetSound(t, n0) /\ TargetFits(c, n0)
  BY TargetOfCall
<1>2. /\ c.sameOwner = SameOwner(n0, c.owner)
      /\ c.foreign = (IsRegistered(n0) /\ ~SameOwner(n0, c.owner))
      /\ c.start.target[t] = n0
  BY DEF CallFound
<1> HIDE DEF n0
<1>3. /\ n1 \in TargetKey /\ n1.present = n0.present /\ n1.owner = n0.owner
      /\ n1.default = n0.default /\ n1.openWith = n0.openWith \ {c.owner}
  BY <1>1 DEF TargetKey
<1> HIDE DEF n1
<1>4. /\ n2 \in TargetKey /\ n2.present = n0.present /\ n2.owner = n0.owner
      /\ n2.default = (IF n0.default = c.owner THEN NoValue ELSE n0.default)
      /\ n2.openWith = n0.openWith \ {c.owner}
  BY <1>3 DEF TargetKey
<1> HIDE DEF n2
<1>5. /\ n3 \in TargetKey /\ n3.present = n0.present /\ n3.owner = NoValue
      /\ n3.default = (IF n0.default = c.owner THEN NoValue ELSE n0.default)
      /\ n3.openWith = n0.openWith \ {c.owner}
  BY <1>4 DEF TargetKey
<1> HIDE DEF n3
<1>6. TargetSound(t, n1) /\ TargetFits(c, n1)
  BY <1>1, <1>3 DEF TargetSound, TargetFits, IsRegistered, SameOwner
<1>7. ASSUME c.sameOwner PROVE ~c.foreign /\ n0.owner = c.owner /\ n0.present
  BY <1>2, <1>7 DEF SameOwner
<1>8. ASSUME c.sameOwner PROVE n3.default \notin Owners /\ n2.default \notin Owners
  BY <1>1, <1>4, <1>5, <1>7, <1>8 DEF TargetSound
<1>9. ASSUME c.sameOwner PROVE TargetSound(t, n2) /\ TargetFits(c, n2)
  BY <1>1, <1>4, <1>7, <1>8, <1>9 DEF TargetSound, TargetFits, IsRegistered, SameOwner
<1>10. ASSUME c.sameOwner PROVE n3.default \in {NoValue, Other}
  BY <1>5, <1>8, <1>10 DEF TargetKey
<1>11. ASSUME c.sameOwner PROVE TargetSound(t, n3)
  BY <1>1, <1>5, <1>7, <1>8, <1>11 DEF TargetSound
<1>12. ASSUME c.sameOwner PROVE TargetFits(c, n3)
  <2>1. ~c.foreign
    BY <1>7, <1>12
  <2>2. IsRegistered(n3) => n3.default = Other
    BY <1>5, <1>10, <1>12 DEF IsRegistered
  <2>3. n3.default = Other => n0.default = Other
    BY <1>5, RegistrationAssumption
  <2> QED
    BY <1>2, <2>1, <2>2, <2>3 DEF TargetFits
<1>13. /\ StageSound(c, q1) /\ q1.program = r.program /\ q1.application = r.application
       /\ q1.target[t] = n1
  BY <1>3, <1>6, TargetChanges
<1> HIDE DEF q1
<1>14. ASSUME c.sameOwner
       PROVE  /\ StageSound(c, q2) /\ q2.program = r.program /\ q2.application = r.application
              /\ q2.target[t] = n2
  BY <1>4, <1>9, <1>13, <1>14, TargetChanges
<1> HIDE DEF q2
<1>15. ASSUME c.sameOwner
       PROVE  /\ StageSound(c, q3) /\ q3.program = r.program /\ q3.application = r.application
              /\ q3.target[t] = n3
  BY <1>5, <1>11, <1>12, <1>14, <1>15, TargetChanges
<1> HIDE DEF q3
<1>16. /\ StageSound(c, last) /\ last.program = r.program /\ last.application = r.application
       /\ m \in TargetKey /\ TargetSound(t, m) /\ TargetFits(c, m)
       /\ ~SameOwner(m, c.owner) /\ c.owner \notin m.openWith \cup {m.default}
  <2>1. CASE c.sameOwner
    <3>1. last = q3 /\ m = n3
      BY <1>15, <2>1
    <3>2. ~SameOwner(n3, c.owner) /\ c.owner \notin n3.openWith \cup {n3.default}
      BY <1>1, <1>5, <1>8, <2>1 DEF SameOwner
    <3> HIDE DEF last, m
    <3> QED
      BY <1>5, <1>11, <1>12, <1>15, <2>1, <3>1, <3>2
  <2>2. CASE ~c.sameOwner
    <3>1. last = q1 /\ m = n1
      BY <1>13, <2>2
    <3>2. ~SameOwner(n1, c.owner)
      BY <1>2, <1>3, <2>2 DEF SameOwner
    <3>3. n1.default = c.owner => SameOwner(n1, c.owner)
      BY <1>1, <1>6 DEF TargetSound, SameOwner
    <3>4. c.owner \notin n1.openWith \cup {n1.default}
      BY <1>3, <3>2, <3>3
    <3> HIDE DEF last, m
    <3> QED
      BY <1>3, <1>6, <1>13, <3>1, <3>2, <3>4
  <2> QED
    BY <2>1, <2>2
<1>17. s = d \o << q4 >> /\ Writes(c, d) /\ AfterCall(d, r) = last
  <2>1. UnlistStages(r, c) = << q1 >>
    BY DEF q1, n1, n0, TargetPut, UnlistStages
  <2>2. Writes(c, << q1 >>) /\ AfterCall(<< q1 >>, r) = q1
    BY <1>13, OneWrite
  <2>3. ASSUME c.sameOwner
        PROVE  /\ DisownStages(q1, c) = << q2, q3 >>
               /\ Writes(c, << q2, q3 >>) /\ AfterCall(<< q2, q3 >>, q1) = q3
    <3>1. q2 = [q1 EXCEPT !.target[t].default = IF @ = c.owner THEN NoValue ELSE @]
      BY <1>13 DEF q2, n2, TargetPut
    <3>2. q3 = [q2 EXCEPT !.target[t].owner = NoValue]
      BY <1>14, <2>3 DEF q3, n3, TargetPut
    <3>3. DisownStages(q1, c) = << q2, q3 >>
      BY <3>1, <3>2 DEF DisownStages
    <3> QED
      BY <1>14, <1>15, <2>3, <3>3, TwoWrites
  <2>4. Writes(c, d) /\ AfterCall(d, r) = last
    <3>1. CASE c.sameOwner
      BY <2>2, <2>3, <3>1, Joined
    <3>2. CASE ~c.sameOwner
      BY <2>2, <3>2
    <3> QED
      BY <3>1, <3>2
  <2>5. d = IF c.sameOwner THEN UnlistStages(r, c) \o DisownStages(AfterCall(UnlistStages(r, c), r), c)
            ELSE UnlistStages(r, c)
    BY <2>1, <2>2, <2>3
  <2>6. s = d \o PruneStages(AfterCall(d, r), c)
    <3> HIDE DEF d
    <3> QED
      BY <2>5 DEF RemoveExtensionStages
  <2> HIDE DEF last, d, s
  <2>7. PruneStages(last, c) = << q4 >>
    BY DEF PruneStages, TargetPut
  <2> QED
    BY <2>4, <2>6, <2>7
<1> HIDE DEF last, m
<1>18. /\ x \in TargetKey /\ TargetSound(t, x) /\ TargetFits(c, x)
       /\ ~SameOwner(x, c.owner) /\ c.owner \notin x.openWith \cup {x.default}
  <2>1. CASE x = m
    BY <1>16, <2>1
  <2>2. CASE x # m
    <3>1. /\ m.owner = NoValue /\ m.default = NoValue /\ m.openWith = {}
          /\ x = AbsentTarget
      BY <2>2 DEF Pruned
    <3>2. /\ AbsentTarget \in TargetKey /\ AbsentTarget.present = FALSE /\ AbsentTarget.owner = NoValue
          /\ AbsentTarget.default = NoValue /\ AbsentTarget.openWith = {}
      BY DEF TargetKey, AbsentTarget, Bodies
    <3>3. TargetSound(t, AbsentTarget) /\ ~SameOwner(AbsentTarget, c.owner)
      BY <1>1, <3>2 DEF TargetSound, SameOwner
    <3>4. TargetFits(c, AbsentTarget)
      BY <1>16, <3>1, <3>2 DEF TargetFits, IsRegistered
    <3>5. c.owner \notin AbsentTarget.openWith \cup {AbsentTarget.default}
      BY <1>1, <3>2
    <3> QED
      BY <3>1, <3>2, <3>3, <3>4, <3>5
  <2> QED
    BY <2>1, <2>2
<1> HIDE DEF x
<1>19. /\ StageSound(c, q4) /\ q4.program = r.program /\ q4.application = r.application
       /\ q4.target[t] = x
  BY <1>16, <1>18, TargetChanges
<1> HIDE DEF q4, s
<1> HIDE DEF d
<1>21. Writes(c, << q4 >>) /\ AfterCall(<< q4 >>, last) = q4
  BY <1>19, OneWrite
<1>22. Writes(c, s) /\ AfterCall(s, r) = q4
  BY <1>17, <1>21, Joined
<1>24. TargetGone(c, q4)
  BY <1>18, <1>19 DEF TargetGone
<1> QED
  BY <1>19, <1>22, <1>24 DEF s

\* Unregistering leaves nothing of the owner's registration, whichever of its parts there was.
LEMMA UnregisterIsSound ==
  ASSUME NEW c, CallFound(c), Writable(c), StageSound(c, c.start)
  PROVE  LET s == UnregisterStages(c.start, c)
         IN  Writes(c, s) /\ AllGone(c, AfterCall(s, c.start))
<1> DEFINE r == c.start
           a == RemoveApplicationStages(r, c)
           qa == AfterCall(a, r)
           w == IF c.target \in Extensions THEN RemoveExtensionStages(qa, c) ELSE RemoveSchemeStages(qa, c)
           qw == AfterCall(w, qa)
           t == a \o w
           p == RemoveProgramStages(AfterCall(t, r), c)
           qp == AfterCall(p, qw)
<1> HIDE DEF r
<1>1. StageSound(c, r) /\ r = c.start
  BY DEF r
<1>2. /\ Writes(c, a) /\ StageSound(c, qa) /\ ApplicationGone(c, qa)
      /\ qa.target = r.target /\ qa.program = r.program
  BY <1>1, RemoveApplicationIsSound
<1> HIDE DEF a, qa
<1>3. /\ Writes(c, w) /\ StageSound(c, qw) /\ TargetGone(c, qw)
      /\ qw.program = qa.program /\ qw.application = qa.application
  <2>1. qa.target[c.target] = c.start.target[c.target]
    BY <1>1, <1>2
  <2>2. CASE c.target \in Extensions
    BY <1>2, <2>1, <2>2, RemoveExtensionIsSound
  <2>3. CASE c.target \notin Extensions
    BY <1>2, <2>1, <2>3, RemoveSchemeIsSound
  <2> QED
    BY <2>2, <2>3
<1> HIDE DEF w
<1>4. Writes(c, t) /\ AfterCall(t, r) = qw
  BY <1>2, <1>3, Joined DEF qa
<1> HIDE DEF t, qw
<1>5. qw.program[Program(c)] = c.start.program[Program(c)]
  BY <1>1, <1>2, <1>3
<1>6. /\ Writes(c, p) /\ ProgramGone(c, qp)
      /\ qp.target = qw.target /\ qp.application = qw.application
  BY <1>3, <1>4, <1>5, RemoveProgramIsSound
<1> HIDE DEF p
<1>7. Writes(c, t \o p) /\ AfterCall(t \o p, r) = qp
  BY <1>4, <1>6, Joined
<1> HIDE DEF qp
<1>8. AllGone(c, qp)
  BY <1>2, <1>3, <1>6 DEF AllGone, TargetGone, ApplicationGone
<1>9. UnregisterStages(r, c) = t \o p
  BY DEF UnregisterStages, t, p, a, w, qa
<1> QED
  BY <1>7, <1>8, <1>9 DEF r

-----------------------------------------------------------------------------
(* The steps of a call *)

\* What is known of a call does not depend on how far it has come.
LEMMA SameCall ==
  ASSUME NEW c, CallFound(c), NEW d \in CallRecord,
         d.op = c.op, d.owner = c.owner, d.target = c.target, d.app = c.app, d.start = c.start,
         d.sameOwner = c.sameOwner, d.foreign = c.foreign, d.ownProgram = c.ownProgram, d.lost = c.lost
  PROVE  /\ CallFound(d) /\ Program(d) = Program(c) /\ Writable(d) = Writable(c)
         /\ \A r : StageSound(c, r) => StageSound(d, r)
         /\ \A s : Writes(c, s) => Writes(d, s)
         /\ \A r : AllGone(c, r) => AllGone(d, r)
<1>1. Program(d) = Program(c) /\ Writable(d) = Writable(c)
  BY DEF Program, Writable
<1>2. CallFound(d)
  BY <1>1 DEF CallFound
<1>3. ASSUME NEW r, StageSound(c, r) PROVE StageSound(d, r)
  BY <1>1, <1>3 DEF StageSound, TargetFits
<1>4. ASSUME NEW s, Writes(c, s) PROVE Writes(d, s)
  BY <1>3, <1>4 DEF Writes
<1>5. ASSUME NEW r, AllGone(c, r) PROVE AllGone(d, r)
  BY <1>1, <1>5 DEF AllGone, ProgramGone, TargetGone, ApplicationGone
<1> QED
  BY <1>1, <1>2, <1>3, <1>4, <1>5

\* A call that lost a tree is held to less.
LEMMA LossyCall ==
  ASSUME NEW c, CallFound(c), NEW d \in CallRecord,
         d.op = c.op, d.owner = c.owner, d.target = c.target, d.app = c.app, d.start = c.start,
         d.sameOwner = c.sameOwner, d.foreign = c.foreign, d.ownProgram = c.ownProgram, d.lost = TRUE
  PROVE  /\ CallFound(d) /\ Program(d) = Program(c) /\ Writable(d) = Writable(c)
         /\ \A r : StageSound(c, r) => StageSound(d, r)
<1>1. Program(d) = Program(c) /\ Writable(d) = Writable(c)
  BY DEF Program, Writable
<1>2. CallFound(d)
  BY <1>1 DEF CallFound
<1>3. ASSUME NEW r, StageSound(c, r) PROVE StageSound(d, r)
  BY <1>1, <1>3 DEF StageSound, TargetFits
<1> QED
  BY <1>1, <1>2, <1>3

LEMMA ReturnRecord ==
  ASSUME NEW c \in CallRecord, NEW o \in {"refused", "failed", "ok", "cleanupFailed"}
  PROVE  LET d == Returns(c, o)
         IN  /\ d \in CallRecord /\ d.pc = "done" /\ d.outcome = o
             /\ d.op = c.op /\ d.owner = c.owner /\ d.target = c.target /\ d.app = c.app /\ d.start = c.start
             /\ d.sameOwner = c.sameOwner /\ d.foreign = c.foreign /\ d.ownProgram = c.ownProgram
             /\ d.lost = c.lost
  BY DEF Returns, CallRecord

\* Every return.
LEMMA Returned ==
  ASSUME NEW c, CallFound(c), NEW r, StageSound(c, r),
         NEW o \in {"refused", "failed", "ok", "cleanupFailed"},
         o \in {"refused", "failed"} /\ ~c.lost => r = c.start,
         c.op = "unregister" /\ o \in {"ok", "cleanupFailed"} => AllGone(c, r)
  PROVE  CallSound(Returns(c, o), r) /\ Returns(c, o).pc = "done"
<1> DEFINE d == Returns(c, o)
<1>1. /\ d \in CallRecord /\ d.pc = "done" /\ d.outcome = o
      /\ d.op = c.op /\ d.owner = c.owner /\ d.target = c.target /\ d.app = c.app /\ d.start = c.start
      /\ d.sameOwner = c.sameOwner /\ d.foreign = c.foreign /\ d.ownProgram = c.ownProgram
      /\ d.lost = c.lost
  BY ReturnRecord DEF CallFound
<1> HIDE DEF d
<1>2. CallFound(d) /\ StageSound(d, r) /\ (AllGone(c, r) => AllGone(d, r))
  BY <1>1, SameCall
<1>3. CallSound(d, r)
  BY <1>1, <1>2 DEF CallSound
<1> QED
  BY <1>1, <1>3 DEF d

LEMMA ReturnedBad ==
  ASSUME NEW c, CallFound(c), NEW r, StageSound(c, r), NEW o \in {"refused", "failed"},
         ~c.lost => r = c.start
  PROVE  CallSound(Returns(c, o), r)
<1>1. o \in {"refused", "failed", "ok", "cleanupFailed"} /\ o \notin {"ok", "cleanupFailed"}
  OBVIOUS
<1> QED
  BY <1>1, Returned

\* A call over the registry it finds.
NewRecord(r, op, o, t, app, x) ==
  [pc |-> "capture", op |-> op, owner |-> o, target |-> t, app |-> app, description |-> x,
   sameOwner |-> SameOwner(r.target[t], o),
   foreign |-> IsRegistered(r.target[t]) /\ ~SameOwner(r.target[t], o),
   ownProgram |-> SameOwner(r.program[<<o, t>>], o), start |-> r, todo |-> << >>,
   restored |-> 0, lost |-> FALSE, outcome |-> "none"]

\* A call as it is found at its beginning.
LEMMA NewCall ==
  ASSUME NEW r, RegistrySound(r), NEW op \in {"extension", "scheme", "unregister"}, NEW o \in Owners,
         NEW t \in ShellTargets, NEW app \in Apps \cup {NoValue}, NEW x \in Bodies,
         op = "extension" => t \in Extensions, op = "scheme" => t \in Schemes,
         NEW c, c = NewRecord(r, op, o, t, app, x)
  PROVE  /\ CallFound(c) /\ StageSound(c, r) /\ c.pc = "capture" /\ c.start = r /\ ~c.lost
         /\ c.restored = 0 /\ Writable(c) = ~AppBlocked(r, app, o)
<1>1. /\ c.pc = "capture" /\ c.op = op /\ c.owner = o /\ c.target = t /\ c.app = app
      /\ c.start = r /\ c.lost = FALSE /\ c.restored = 0
      /\ c.sameOwner = SameOwner(r.target[t], o)
      /\ c.foreign = (IsRegistered(r.target[t]) /\ ~SameOwner(r.target[t], o))
      /\ c.ownProgram = SameOwner(r.program[<<o, t>>], o)
  BY DEF NewRecord
<1>2. r \in Registry /\ r.target[t] \in TargetKey /\ r.program[<<o, t>>] \in ProgramKey
  BY DEF RegistrySound, Registry
<1>3. /\ SameOwner(r.target[t], o) \in BOOLEAN /\ SameOwner(r.program[<<o, t>>], o) \in BOOLEAN
      /\ (IsRegistered(r.target[t]) /\ ~SameOwner(r.target[t], o)) \in BOOLEAN
  BY <1>2 DEF SameOwner, IsRegistered, TargetKey, ProgramKey
<1>4. << >> \in Seq(Registry)
  OBVIOUS
<1>5. c \in CallRecord
  BY <1>2, <1>3, <1>4 DEF CallRecord, NewRecord
<1>6. Program(c) = <<o, t>>
  BY <1>1 DEF Program
<1>7. CallFound(c)
  BY <1>1, <1>5, <1>6 DEF CallFound
<1>8. TargetFits(c, r.target[t])
  BY <1>1 DEF TargetFits
<1>9. StageSound(c, r)
  BY <1>1, <1>8 DEF StageSound
<1>10. Writable(c) = ~AppBlocked(r, app, o)
  BY <1>1 DEF Writable
<1> QED
  BY <1>1, <1>7, <1>9, <1>10

\* The writes left after the next one.
LEMMA Popped ==
  ASSUME NEW c, NEW s, Writes(c, s), s # << >>
  PROVE  /\ StageSound(c, Head(s)) /\ Writes(c, Tail(s))
         /\ \A r : AfterCall(Tail(s), Head(s)) = AfterCall(s, r)
<1>1. /\ s \in Seq(Registry) /\ Len(s) \in Nat \ {0} /\ DOMAIN s = 1 .. Len(s)
  BY EmptySeq, LenProperties DEF Writes
<1>2. /\ Tail(s) \in Seq(Registry) /\ Len(Tail(s)) = Len(s) - 1
      /\ \A i \in 1 .. Len(s) - 1 : Tail(s)[i] = s[i + 1]
  BY <1>1
<1>0. Len(<< >>) = 0 /\ (Tail(s) # << >> => Len(Tail(s)) \in Nat \ {0})
  BY <1>2, EmptySeq
<1>3. DOMAIN Tail(s) = 1 .. Len(s) - 1
  BY <1>2, LenProperties
<1>4. Head(s) = s[1] /\ StageSound(c, s[1])
  BY <1>1 DEF Writes
<1>5. ASSUME NEW i \in DOMAIN Tail(s) PROVE StageSound(c, Tail(s)[i])
  <2>1. i + 1 \in DOMAIN s /\ Tail(s)[i] = s[i + 1]
    BY <1>1, <1>2, <1>3
  <2> QED
    BY <2>1 DEF Writes
<1>6. ASSUME NEW r PROVE AfterCall(Tail(s), Head(s)) = AfterCall(s, r)
  <2>1. CASE Len(s) = 1
    <3>1. Tail(s) = << >>
      BY <1>0, <1>2, <2>1
    <3> QED
      BY <1>4, <2>1, <3>1 DEF AfterCall, Last
  <2>2. CASE Len(s) # 1
    <3>1. Len(s) - 1 \in 1 .. Len(s) - 1
      BY <1>1, <2>2
    <3>2. Tail(s) # << >>
      <4>1. Len(Tail(s)) # 0
        BY <1>1, <1>2, <2>2
      <4>2. Tail(s) = << >> => Len(Tail(s)) = 0
        BY <1>0
      <4> QED
        BY <4>1, <4>2
    <3>3. Tail(s)[Len(Tail(s))] = s[Len(s)]
      BY <1>1, <1>2, <3>1
    <3> QED
      BY <3>2, <3>3 DEF AfterCall, Last
  <2> QED
    BY <2>1, <2>2
<1> QED
  BY <1>2, <1>4, <1>5, <1>6 DEF Writes

\* Trees that are gone, or bare keys: nobody's registration.
Unregistered(from) ==
  /\ \A k \in Owners \X ShellTargets : from.program[k] \in ProgramKey
  /\ \A t \in ShellTargets :
       /\ from.target[t] \in TargetKey /\ from.target[t].owner = NoValue
       /\ from.target[t].default = NoValue /\ from.target[t].openWith = {}
  /\ \A a \in Apps :
       /\ from.application[a] \in ApplicationKey
       /\ from.application[a].owner = NoValue /\ from.application[a].types = {}

\* What restoring a tree leaves when it stops half way belongs to nobody.
LEMMA HalfRestoredTrees ==
  ASSUME NEW r \in Registry, NEW from \in {NoTrees, BareTrees(r)}
  PROVE  Unregistered(from)
<1>1. /\ \A k \in Owners \X ShellTargets : r.program[k].present \in BOOLEAN
      /\ \A t \in ShellTargets : r.target[t].present \in BOOLEAN
      /\ \A a \in Apps : r.application[a].present \in BOOLEAN
  BY DEF Registry, ProgramKey, TargetKey, ApplicationKey
<1>2. /\ NoValue \in Owners \cup {NoValue, Other} /\ NoValue \in Owners \cup {NoValue}
      /\ NoValue \in Apps \cup {NoValue} /\ NoValue \in Bodies
  BY DEF Bodies
<1>3. CASE from = NoTrees
  BY <1>2, <1>3 DEF NoTrees, Unregistered, AbsentTarget, NoProgram, NoApp, TargetKey, ProgramKey, ApplicationKey
<1>4. CASE from = BareTrees(r)
  <2>1. ASSUME NEW k \in Owners \X ShellTargets PROVE from.program[k] \in ProgramKey
    BY <1>1, <1>2, <1>4, <2>1 DEF BareTrees, NoProgram, ProgramKey
  <2>2. ASSUME NEW t \in ShellTargets
        PROVE  /\ from.target[t] \in TargetKey /\ from.target[t].owner = NoValue
               /\ from.target[t].default = NoValue /\ from.target[t].openWith = {}
    BY <1>1, <1>2, <1>4, <2>2 DEF BareTrees, AbsentTarget, TargetKey
  <2>3. ASSUME NEW a \in Apps
        PROVE  /\ from.application[a] \in ApplicationKey
               /\ from.application[a].owner = NoValue /\ from.application[a].types = {}
    BY <1>1, <1>2, <1>4, <2>3 DEF BareTrees, NoApp, ApplicationKey
  <2> QED
    BY <2>1, <2>2, <2>3 DEF Unregistered
<1> QED
  BY <1>3, <1>4

\* The call, or the call with other trees for a backup.
RestoresFrom(b, c, from) == b.owner = c.owner /\ b.target = c.target /\ b.app = c.app /\ b.start = from
PutsBack(q, r, b, i) == q = RestoredRegistry(r, b, i)

\* A backup tree put back, or a tree that could not be brought back whole.
LEMMA TreeBack ==
  ASSUME NEW c, CallFound(c), Writable(c), NEW r, StageSound(c, r), NEW i \in 1 .. 3,
         NEW from, from = c.start \/ (Unregistered(from) /\ c.lost),
         NEW b, RestoresFrom(b, c, from), NEW q, PutsBack(q, r, b, i)
  PROVE  /\ StageSound(c, q)
         /\ i = 1 => q.program[Program(c)] = from.program[Program(c)]
         /\ i = 2 => q.target[c.target] = from.target[c.target] /\ q.program = r.program
         /\ i = 3 => /\ c.app # NoValue => q.application[c.app] = from.application[c.app]
                     /\ q.program = r.program /\ q.target = r.target
<1>1. /\ b.owner = c.owner /\ b.target = c.target /\ b.app = c.app /\ b.start = from
      /\ q = RestoredRegistry(r, b, i)
  BY DEF RestoresFrom, PutsBack
<1>2. Program(b) = Program(c) /\ Program(c) \in Owners \X ShellTargets
  BY <1>1 DEF Program, CallFound, CallRecord
<1>3. c.target \in ShellTargets /\ c.app \in Apps \cup {NoValue} /\ RegistrySound(c.start) /\ NoValue \notin Owners
  BY RegistrationAssumption DEF CallFound, CallRecord
<1>5. /\ from.program[Program(c)] \in ProgramKey
      /\ from.target[c.target] \in TargetKey /\ TargetSound(c.target, from.target[c.target])
      /\ c.app # NoValue => /\ from.application[c.app] \in ApplicationKey
                            /\ ApplicationSound(from.application[c.app])
  <2>1. CASE from = c.start
    <3>1. from \in Registry
      BY <1>3, <2>1 DEF RegistrySound
    <3>2. /\ from.program[Program(c)] \in ProgramKey /\ from.target[c.target] \in TargetKey
          /\ c.app # NoValue => from.application[c.app] \in ApplicationKey
      BY <1>2, <1>3, <3>1 DEF Registry
    <3>3. /\ TargetSound(c.target, from.target[c.target])
          /\ c.app # NoValue => ApplicationSound(from.application[c.app])
      BY <1>3, <2>1 DEF RegistrySound
    <3> QED
      BY <3>2, <3>3
  <2>2. CASE Unregistered(from)
    <3>1. /\ from.target[c.target].owner = NoValue /\ from.target[c.target].default = NoValue
          /\ from.target[c.target].openWith = {}
          /\ from.program[Program(c)] \in ProgramKey /\ from.target[c.target] \in TargetKey
      BY <1>2, <1>3, <2>2 DEF Unregistered
    <3>2. c.app # NoValue => /\ from.application[c.app] \in ApplicationKey
                             /\ from.application[c.app].owner = NoValue /\ from.application[c.app].types = {}
      BY <1>3, <2>2 DEF Unregistered
    <3> QED
      BY <1>3, <3>1, <3>2 DEF TargetSound, ApplicationSound
  <2> QED
    BY <2>1, <2>2
<1>6. TargetFits(c, from.target[c.target])
  <2>1. CASE from = c.start
    <3>1. c.foreign = (IsRegistered(c.start.target[c.target]) /\ ~SameOwner(c.start.target[c.target], c.owner))
      BY DEF CallFound
    <3> QED
      BY <2>1, <3>1 DEF TargetFits
  <2>2. CASE Unregistered(from) /\ c.lost
    <3>1. from.target[c.target].owner = NoValue /\ from.target[c.target].default = NoValue
      BY <1>3, <2>2 DEF Unregistered
    <3> QED
      BY <2>2, <3>1 DEF TargetFits, IsRegistered
  <2> QED
    BY <2>1, <2>2
<1>7. CASE i = 1
  <2>1. q = ProgramPut(r, Program(c), from.program[Program(c)])
    BY <1>1, <1>2, <1>7 DEF RestoredRegistry, ProgramPut
  <2>2. StageSound(c, q) /\ q.program[Program(c)] = from.program[Program(c)]
    BY <1>5, <2>1, ProgramChanges
  <2> QED
    BY <1>7, <2>2
<1>8. CASE i = 2
  <2>1. q = TargetPut(r, c.target, from.target[c.target])
    BY <1>1, <1>8 DEF RestoredRegistry, TargetPut
  <2>2. /\ StageSound(c, q) /\ q.target[c.target] = from.target[c.target]
        /\ q.program = r.program
    BY <1>5, <1>6, <2>1, TargetChanges
  <2> QED
    BY <1>8, <2>2
<1>9. CASE i = 3
  <2>1. CASE c.app = NoValue
    <3>1. q = r
      BY <1>1, <1>9, <2>1 DEF RestoredRegistry
    <3> QED
      BY <1>9, <2>1, <3>1
  <2>2. CASE c.app # NoValue
    <3>1. q = ApplicationPut(r, c.app, from.application[c.app])
      BY <1>1, <1>9, <2>2 DEF RestoredRegistry, ApplicationPut
    <3>2. /\ StageSound(c, q) /\ q.application[c.app] = from.application[c.app]
          /\ q.program = r.program /\ q.target = r.target
      BY <1>5, <2>2, <3>1, ApplicationChanges
    <3> QED
      BY <1>9, <3>2
  <2> QED
    BY <2>1, <2>2
<1> QED
  BY <1>7, <1>8, <1>9

\* The three trees of a call are back.
OwnBack(c, r) ==
  /\ r.program[Program(c)] = c.start.program[Program(c)]
  /\ r.target[c.target] = c.start.target[c.target]
  /\ c.app # NoValue => r.application[c.app] = c.start.application[c.app]

\* With all three trees back the registry is what it was.
LEMMA AllBack ==
  ASSUME NEW c, CallFound(c), Writable(c), NEW r, StageSound(c, r), OwnBack(c, r)
  PROVE  r = c.start
<1>1. r \in Registry /\ c.start \in Registry
  BY DEF StageSound, CallFound, RegistrySound
<1>2. /\ \A k \in Owners \X ShellTargets : r.program[k] = c.start.program[k]
      /\ \A t \in ShellTargets : r.target[t] = c.start.target[t]
      /\ \A a \in Apps : r.application[a] = c.start.application[a]
  BY DEF StageSound, OwnBack
<1>3. /\ r.program = c.start.program /\ r.target = c.start.target /\ r.application = c.start.application
  BY <1>1, <1>2 DEF Registry
<1> QED
  BY <1>1, <1>3 DEF Registry

-----------------------------------------------------------------------------
(* The invariant *)

\* A registration or an unregistration that begins, or is refused at once.
LEMMA CallBegins ==
  ASSUME RegistrationInv, NEW op \in {"extension", "scheme", "unregister"}, NEW o \in Owners,
         NEW t \in ShellTargets, NEW app \in Apps \cup {NoValue}, NEW x \in Bodies,
         op = "extension" => t \in Extensions, op = "scheme" => t \in Schemes,
         NEW refused, ~refused => ~AppBlocked(reg, app, o),
         call' = (IF refused THEN Returns(RegistrationCall(op, o, t, app, x), "refused")
                  ELSE RegistrationCall(op, o, t, app, x)),
         crashed' = NoCall, UNCHANGED reg
  PROVE  RegistrationInv'
<1>1. PICK r : r = reg
  OBVIOUS
<1>2. PICK c : c = RegistrationCall(op, o, t, app, x)
  OBVIOUS
<1>3. RegistrySound(r)
  BY <1>1 DEF RegistrationInv
<1>4. c = NewRecord(r, op, o, t, app, x)
  BY <1>1, <1>2 DEF RegistrationCall, NewRecord
<1>5. /\ CallFound(c) /\ StageSound(c, r) /\ c.pc = "capture" /\ c.start = r /\ ~c.lost
      /\ c.restored = 0 /\ Writable(c) = ~AppBlocked(r, app, o)
  BY <1>3, <1>4, NewCall
<1>6. CASE refused
  <2>1. CallSound(Returns(c, "refused"), r)
    BY <1>5, ReturnedBad
  <2>2. call' = Returns(c, "refused")
    BY <1>2, <1>6
  <2>3. CallSound(call', reg')
    BY <1>1, <2>1, <2>2
  <2> QED
    BY <1>1, <1>3, <2>3 DEF RegistrationInv
<1>7. CASE ~refused
  <2>1. CallSound(c, r)
    BY <1>1, <1>5, <1>7 DEF CallSound
  <2>2. CallSound(call', reg')
    BY <1>1, <1>2, <1>7, <2>1
  <2> QED
    BY <1>1, <1>3, <2>2 DEF RegistrationInv
<1> QED
  BY <1>6, <1>7

LEMMA CallRunning ==
  ASSUME RegistrationInv, call.pc # "idle"
  PROVE  CallSound(call, reg) /\ crashed = NoCall /\ call # NoCall
  BY DEF RegistrationInv, NoCall

LEMMA CallIdle ==
  ASSUME RegistrationInv, call.pc = "idle"
  PROVE  call = NoCall
<1>1. CASE CallSound(call, reg)
  <2>1. call.pc \in {"capture", "write", "rollback", "done"}
    BY <1>1 DEF CallSound, CallFound, CallRecord
  <2> QED
    BY <2>1
<1> QED
  BY <1>1 DEF RegistrationInv

\* The registry under a running call is sound, and so is one under no call.
LEMMA RunningKeeps ==
  ASSUME CallSound(call', reg'), crashed' = NoCall
  PROVE  RegistrationInv'
  BY DEF RegistrationInv, CallSound, StageSound

LEMMA RegisterExtensionKeeps ==
  ASSUME RegistrationInv, NEW o \in Owners, NEW app \in Apps \cup {NoValue},
         NEW x \in AppDescriptions \cup {Malformed}, NEW policy \in Policies, NEW t \in Extensions,
         RegisterFileExtension(o, t, app, x, policy)
  PROVE  RegistrationInv'
<1> DEFINE c == RegistrationCall("extension", o, t, app, x)
           refused == ~WellFormed(x) \/ Conflict(c, policy) \/ AppBlocked(reg, app, o)
<1>1. /\ call' = (IF refused THEN Returns(c, "refused") ELSE c)
      /\ crashed' = NoCall /\ UNCHANGED reg
  BY DEF RegisterFileExtension
<1>2. ~refused => ~AppBlocked(reg, app, o)
  OBVIOUS
<1> HIDE DEF refused
<1>3. PICK no : no = refused
  OBVIOUS
<1>4. t \in ShellTargets /\ x \in Bodies /\ "extension" \in {"extension", "scheme", "unregister"}
  BY DEF ShellTargets, Bodies
<1>5. /\ call' = (IF no THEN Returns(RegistrationCall("extension", o, t, app, x), "refused")
                  ELSE RegistrationCall("extension", o, t, app, x))
      /\ ~no => ~AppBlocked(reg, app, o)
  BY <1>1, <1>2, <1>3
<1>6. "extension" # "scheme"
  OBVIOUS
<1> QED
  BY <1>1, <1>4, <1>5, <1>6, CallBegins

LEMMA RegisterSchemeKeeps ==
  ASSUME RegistrationInv, NEW o \in Owners,
         NEW x \in AppDescriptions \cup {Malformed}, NEW policy \in Policies, NEW t \in Schemes,
         RegisterUriScheme(o, t, x, policy)
  PROVE  RegistrationInv'
<1> DEFINE c == RegistrationCall("scheme", o, t, NoValue, x)
           refused == ~WellFormed(x) \/ Conflict(c, policy)
<1>1. /\ call' = (IF refused THEN Returns(c, "refused") ELSE c)
      /\ crashed' = NoCall /\ UNCHANGED reg
  BY DEF RegisterUriScheme
<1>2. ~AppBlocked(reg, NoValue, o)
  BY DEF AppBlocked
<1> HIDE DEF refused
<1>3. PICK no : no = refused
  OBVIOUS
<1>4. t \in ShellTargets /\ x \in Bodies /\ NoValue \in Apps \cup {NoValue}
  BY DEF ShellTargets, Bodies
<1>5. /\ call' = (IF no THEN Returns(RegistrationCall("scheme", o, t, NoValue, x), "refused")
                  ELSE RegistrationCall("scheme", o, t, NoValue, x))
      /\ ~no => ~AppBlocked(reg, NoValue, o)
  BY <1>1, <1>2, <1>3
<1>6. "extension" # "scheme" /\ "scheme" \in {"extension", "scheme", "unregister"}
  OBVIOUS
<1> QED
  BY <1>1, <1>4, <1>5, <1>6, CallBegins

LEMMA UnregisterKeeps ==
  ASSUME RegistrationInv, NEW o \in Owners, NEW t \in ShellTargets, UnregisterTarget(o, t)
  PROVE  RegistrationInv'
<1> DEFINE program == reg.program[<<o, t>>]
           named == IF SameOwner(program, o) /\ t \in Extensions THEN program.app ELSE NoValue
           c == RegistrationCall("unregister", o, t, named, NoValue)
           refused == (~c.sameOwner /\ ~c.ownProgram) \/ AppBlocked(reg, named, o)
<1>1. /\ call' = (IF refused THEN Returns(c, "refused") ELSE c)
      /\ crashed' = NoCall /\ UNCHANGED reg
  BY DEF UnregisterTarget
<1>2. program.app \in Apps \cup {NoValue}
  BY DEF RegistrationInv, RegistrySound, Registry, ProgramKey
<1>3. named \in Apps \cup {NoValue} /\ NoValue \in Bodies
  BY <1>2 DEF Bodies
<1>4. ~refused => ~AppBlocked(reg, named, o)
  OBVIOUS
<1> HIDE DEF refused, named
<1>5. PICK no : no = refused
  OBVIOUS
<1>6. PICK app : app = named
  OBVIOUS
<1>7. /\ call' = (IF no THEN Returns(RegistrationCall("unregister", o, t, app, NoValue), "refused")
                  ELSE RegistrationCall("unregister", o, t, app, NoValue))
      /\ ~no => ~AppBlocked(reg, app, o)
      /\ app \in Apps \cup {NoValue}
  BY <1>1, <1>3, <1>4, <1>5, <1>6
<1>8. "unregister" # "extension" /\ "unregister" # "scheme" /\ "unregister" \in {"extension", "scheme", "unregister"}
  OBVIOUS
<1> QED
  BY <1>1, <1>3, <1>7, <1>8, CallBegins

LEMMA CaptureKeeps ==
  ASSUME RegistrationInv, CaptureTrees
  PROVE  RegistrationInv'
<1>1. CallSound(call, reg) /\ crashed' = NoCall /\ call.pc = "capture" /\ reg' = reg
  BY CallRunning DEF CaptureTrees
<1>2. PICK c : c = call
  OBVIOUS
<1>3. PICK r : r = reg
  OBVIOUS
<1>4. /\ CallFound(c) /\ StageSound(c, r) /\ Writable(c) /\ r = c.start /\ ~c.lost /\ c.restored = 0
      /\ c.pc = "capture"
  BY <1>1, <1>2, <1>3 DEF CallSound
<1> DEFINE s == CASE c.op = "extension" -> ExtensionStages(r, c)
                  [] c.op = "scheme" -> UriStages(r, c)
                  [] c.op = "unregister" -> UnregisterStages(r, c)
           d == [c EXCEPT !.pc = "write", !.todo = s]
<1>5. call' = d \/ call' = Returns(c, "failed")
  BY <1>2, <1>3 DEF CaptureTrees
<1>6. CASE call' = d
  <2>1. /\ c.op \in {"extension", "scheme", "unregister"}
        /\ c.op = "extension" => c.target \in Extensions
    BY <1>4 DEF CallFound, CallRecord
  <2>2. Writes(c, s) /\ (c.op = "unregister" => AllGone(c, AfterCall(s, r)))
    <3>1. CASE c.op = "extension"
      <4>1. s = ExtensionStages(r, c)
        BY <3>1
      <4> HIDE DEF s
      <4> QED
        BY <1>4, <2>1, <3>1, <4>1, ExtensionStagesSound
    <3>2. CASE c.op = "scheme"
      <4>1. s = UriStages(r, c)
        BY <3>2
      <4> HIDE DEF s
      <4> QED
        BY <1>4, <3>2, <4>1, UriStagesSound
    <3>3. CASE c.op = "unregister"
      <4>1. s = UnregisterStages(c.start, c)
        BY <1>4, <3>3
      <4>2. StageSound(c, c.start)
        BY <1>4
      <4> HIDE DEF s
      <4> QED
        BY <1>4, <4>1, <4>2, UnregisterIsSound
    <3> QED
      BY <2>1, <3>1, <3>2, <3>3
  <2> HIDE DEF s
  <2>3. s \in Seq(Registry) /\ c \in CallRecord
    BY <1>4, <2>2 DEF Writes, CallFound
  <2>4. /\ d \in CallRecord /\ d.pc = "write" /\ d.todo = s /\ d.restored = c.restored
        /\ d.op = c.op /\ d.owner = c.owner /\ d.target = c.target /\ d.app = c.app /\ d.start = c.start
        /\ d.sameOwner = c.sameOwner /\ d.foreign = c.foreign /\ d.ownProgram = c.ownProgram
        /\ d.lost = c.lost
    BY <2>3 DEF CallRecord
  <2> HIDE DEF d
  <2>5. /\ CallFound(d) /\ StageSound(d, r) /\ Writable(d) /\ Writes(d, s)
        /\ d.op = "unregister" => AllGone(d, AfterCall(s, r))
    BY <1>4, <2>2, <2>4, SameCall
  <2>6. CallSound(d, r)
    BY <1>4, <2>4, <2>5 DEF CallSound
  <2>7. CallSound(call', reg')
    BY <1>1, <1>3, <1>6, <2>6
  <2> QED
    BY <1>1, <2>7, RunningKeeps
<1>7. CASE call' = Returns(c, "failed")
  <2>1. CallSound(Returns(c, "failed"), r)
    BY <1>4, Returned
  <2>2. CallSound(call', reg')
    BY <1>1, <1>3, <1>7, <2>1
  <2> QED
    BY <1>1, <2>2, RunningKeeps
<1> QED
  BY <1>5, <1>6, <1>7

LEMMA WriteKeeps ==
  ASSUME RegistrationInv, WriteNext
  PROVE  RegistrationInv'
<1>1. CallSound(call, reg) /\ crashed' = NoCall /\ call.pc = "write" /\ call.todo # << >>
  BY CallRunning DEF WriteNext
<1>2. PICK c : c = call
  OBVIOUS
<1>3. PICK r : r = reg
  OBVIOUS
<1>4. /\ CallFound(c) /\ Writable(c) /\ Writes(c, c.todo) /\ ~c.lost /\ c.restored = 0
      /\ c.pc = "write" /\ c.todo # << >>
      /\ c.op = "unregister" => AllGone(c, AfterCall(c.todo, r))
  BY <1>1, <1>2, <1>3 DEF CallSound
<1> DEFINE s == c.todo
           x == Head(s)
           u == Tail(s)
           d == [c EXCEPT !.todo = Tail(@)]
<1>5. call' = d /\ reg' = x
  BY <1>2 DEF WriteNext
<1>6. /\ StageSound(c, x) /\ Writes(c, u)
      /\ AfterCall(u, x) = AfterCall(s, r)
  BY <1>4, Popped
<1>7. c \in CallRecord /\ u \in Seq(Registry)
  BY <1>4, <1>6 DEF CallFound, Writes
<1>8. /\ d \in CallRecord /\ d.pc = "write" /\ d.todo = u /\ d.restored = c.restored
      /\ d.op = c.op /\ d.owner = c.owner /\ d.target = c.target /\ d.app = c.app /\ d.start = c.start
      /\ d.sameOwner = c.sameOwner /\ d.foreign = c.foreign /\ d.ownProgram = c.ownProgram
      /\ d.lost = c.lost
  BY <1>4, <1>7 DEF CallRecord
<1> HIDE DEF d, x, u
<1>9. /\ CallFound(d) /\ StageSound(d, x) /\ Writable(d) /\ Writes(d, u)
      /\ d.op = "unregister" => AllGone(d, AfterCall(u, x))
  BY <1>4, <1>6, <1>8, SameCall
<1>10. CallSound(d, x)
  BY <1>4, <1>8, <1>9 DEF CallSound
<1>11. CallSound(call', reg')
  BY <1>5, <1>10
<1> QED
  BY <1>1, <1>11, RunningKeeps

LEMMA FailureKeeps ==
  ASSUME RegistrationInv, WriteFails
  PROVE  RegistrationInv'
<1>1. CallSound(call, reg) /\ crashed' = NoCall /\ call.pc = "write" /\ reg' = reg
  BY CallRunning DEF WriteFails
<1>2. PICK c : c = call
  OBVIOUS
<1>3. PICK r : r = reg
  OBVIOUS
<1>4. /\ CallFound(c) /\ StageSound(c, r) /\ Writable(c) /\ ~c.lost /\ c.restored = 0
  BY <1>1, <1>2, <1>3 DEF CallSound
<1> DEFINE d == [c EXCEPT !.pc = "rollback"]
<1>5. call' = d
  BY <1>2 DEF WriteFails
<1>6. /\ d \in CallRecord /\ d.pc = "rollback" /\ d.restored = c.restored
      /\ d.op = c.op /\ d.owner = c.owner /\ d.target = c.target /\ d.app = c.app /\ d.start = c.start
      /\ d.sameOwner = c.sameOwner /\ d.foreign = c.foreign /\ d.ownProgram = c.ownProgram
      /\ d.lost = c.lost
  BY <1>4 DEF CallFound, CallRecord
<1> HIDE DEF d
<1>7. CallFound(d) /\ StageSound(d, r) /\ Writable(d)
  BY <1>4, <1>6, SameCall
<1>8. CallSound(d, r)
  BY <1>4, <1>6, <1>7 DEF CallSound
<1>9. CallSound(call', reg')
  BY <1>1, <1>3, <1>5, <1>8
<1> QED
  BY <1>1, <1>9, RunningKeeps

LEMMA CommitKeeps ==
  ASSUME RegistrationInv, CommitTrees
  PROVE  RegistrationInv'
<1>1. CallSound(call, reg) /\ crashed' = NoCall /\ call.pc = "write" /\ call.todo = << >> /\ reg' = reg
  BY CallRunning DEF CommitTrees
<1>2. PICK c : c = call
  OBVIOUS
<1>3. PICK r : r = reg
  OBVIOUS
<1>4. /\ CallFound(c) /\ StageSound(c, r)
      /\ c.op = "unregister" => AllGone(c, r)
  BY <1>1, <1>2, <1>3 DEF CallSound, AfterCall
<1>5. PICK o \in {"ok", "cleanupFailed"} : call' = Returns(c, o)
  BY <1>2 DEF CommitTrees
<1>6. o \in {"refused", "failed", "ok", "cleanupFailed"} /\ o \notin {"refused", "failed"}
  BY <1>5
<1>7. CallSound(Returns(c, o), r)
  BY <1>4, <1>6, Returned
<1>8. CallSound(call', reg')
  BY <1>1, <1>3, <1>5, <1>7
<1> QED
  BY <1>1, <1>8, RunningKeeps

\* A tree comes back.
LEMMA RestoreKeeps ==
  ASSUME NEW c, NEW r, CallSound(c, r), c.pc = "rollback", NEW i, i = c.restored + 1,
         NEW n, n = [c EXCEPT !.restored = i], NEW x, x = RestoredRegistry(r, c, i)
  PROVE  CallSound(IF i = 3 THEN Returns(n, "failed") ELSE n, x)
<1>1. /\ CallFound(c) /\ StageSound(c, r) /\ Writable(c) /\ c.restored \in 0 .. 2
      /\ c.restored > 0 /\ ~c.lost => r.program[Program(c)] = c.start.program[Program(c)]
      /\ c.restored > 1 /\ ~c.lost => r.target[c.target] = c.start.target[c.target]
  BY DEF CallSound
<1>2. i \in 1 .. 3
  BY <1>1
<1>3. /\ n \in CallRecord /\ n.pc = "rollback" /\ n.restored = i
      /\ n.op = c.op /\ n.owner = c.owner /\ n.target = c.target /\ n.app = c.app /\ n.start = c.start
      /\ n.sameOwner = c.sameOwner /\ n.foreign = c.foreign /\ n.ownProgram = c.ownProgram
      /\ n.lost = c.lost
  BY <1>1, <1>2 DEF CallFound, CallRecord
<1>4. PICK from : from = c.start
  OBVIOUS
<1>5. RestoresFrom(c, c, from) /\ PutsBack(x, r, c, i)
  BY <1>4 DEF RestoresFrom, PutsBack
<1>6. /\ StageSound(c, x)
      /\ i = 1 => x.program[Program(c)] = from.program[Program(c)]
      /\ i = 2 => x.target[c.target] = from.target[c.target] /\ x.program = r.program
      /\ i = 3 => /\ c.app # NoValue => x.application[c.app] = from.application[c.app]
                  /\ x.program = r.program /\ x.target = r.target
  BY <1>1, <1>2, <1>4, <1>5, TreeBack
<1>7. /\ CallFound(n) /\ StageSound(n, x) /\ Writable(n) /\ Program(n) = Program(c)
  BY <1>1, <1>3, <1>4, <1>6, SameCall
<1>8. CASE i = 3
  <2>1. ~c.lost => x = c.start
    <3>1. c.restored > 0 /\ c.restored > 1
      BY <1>1, <1>8
    <3>2. SUFFICES ASSUME ~c.lost PROVE x = c.start
      OBVIOUS
    <3>3. x.program[Program(c)] = c.start.program[Program(c)] /\ x.target[c.target] = c.start.target[c.target]
      BY <1>1, <1>6, <1>8, <3>1, <3>2
    <3>4. c.app # NoValue => x.application[c.app] = c.start.application[c.app]
      BY <1>4, <1>6, <1>8
    <3>5. OwnBack(c, x)
      BY <3>3, <3>4 DEF OwnBack
    <3>6. CallFound(c) /\ Writable(c) /\ StageSound(c, x)
      BY <1>1, <1>6
    <3> QED
      BY <3>5, <3>6, AllBack
  <2>2. CallSound(Returns(n, "failed"), x)
    <3>1. ~n.lost => x = n.start
      BY <1>3, <2>1
    <3> QED
      BY <1>7, <3>1, ReturnedBad
  <2> QED
    BY <1>8, <2>2
<1>9. CASE i # 3
  <2>1. n.restored \in 0 .. 2
    BY <1>2, <1>3, <1>9
  <2>2. ~c.lost => x.program[Program(c)] = c.start.program[Program(c)]
    <3>1. i = 1 \/ (i = 2 /\ c.restored > 0)
      BY <1>1, <1>2, <1>9
    <3> QED
      BY <1>1, <1>4, <1>6, <3>1
  <2>3. n.restored > 1 => i = 2
    BY <1>2, <1>3, <1>9
  <2>4. CallSound(n, x)
    BY <1>3, <1>4, <1>6, <1>7, <2>1, <2>2, <2>3 DEF CallSound
  <2> QED
    BY <1>9, <2>4
<1> QED
  BY <1>8, <1>9

LEMMA MarkedLost ==
  ASSUME NEW m \in CallRecord
  PROVE  LET d == [m EXCEPT !.lost = TRUE]
         IN  /\ d \in CallRecord /\ d.lost = TRUE /\ d.pc = m.pc /\ d.outcome = m.outcome /\ d.restored = m.restored
             /\ d.op = m.op /\ d.owner = m.owner /\ d.target = m.target /\ d.app = m.app /\ d.start = m.start
             /\ d.sameOwner = m.sameOwner /\ d.foreign = m.foreign /\ d.ownProgram = m.ownProgram
  BY DEF CallRecord

\* The call after its last tree, or after another one.
Rolled(n, i) == IF i = 3 THEN Returns(n, "failed") ELSE n

LEMMA RolledRecord ==
  ASSUME NEW n \in CallRecord, NEW i
  PROVE  LET m == Rolled(n, i) IN
         /\ m \in CallRecord
         /\ m.op = n.op /\ m.owner = n.owner /\ m.target = n.target /\ m.app = n.app /\ m.start = n.start
         /\ m.sameOwner = n.sameOwner /\ m.foreign = n.foreign /\ m.ownProgram = n.ownProgram
         /\ i = 3 => m.pc = "done" /\ m.outcome = "failed"
         /\ i # 3 => m.pc = n.pc /\ m.restored = n.restored
<1> DEFINE m == Rolled(n, i)
<1>1. "failed" \in {"refused", "failed", "ok", "cleanupFailed"}
  OBVIOUS
<1>2. CASE i = 3
  <2>1. m = Returns(n, "failed")
    BY <1>2 DEF Rolled
  <2> HIDE DEF m
  <2>2. /\ m \in CallRecord /\ m.pc = "done" /\ m.outcome = "failed"
        /\ m.op = n.op /\ m.owner = n.owner /\ m.target = n.target /\ m.app = n.app /\ m.start = n.start
        /\ m.sameOwner = n.sameOwner /\ m.foreign = n.foreign /\ m.ownProgram = n.ownProgram
    BY <1>1, <2>1, ReturnRecord
  <2> QED
    BY <1>2, <2>2 DEF m
<1>3. CASE i # 3
  BY <1>3 DEF Rolled
<1> QED
  BY <1>2, <1>3

LEMMA LostRecord ==
  ASSUME NEW c \in CallRecord, c.pc = "rollback", NEW i \in 1 .. 3
  PROVE  LET d == [Rolled([c EXCEPT !.restored = i], i) EXCEPT !.lost = TRUE] IN
         /\ d \in CallRecord /\ d.lost = TRUE
         /\ d.op = c.op /\ d.owner = c.owner /\ d.target = c.target /\ d.app = c.app /\ d.start = c.start
         /\ d.sameOwner = c.sameOwner /\ d.foreign = c.foreign /\ d.ownProgram = c.ownProgram
         /\ i = 3 => d.pc = "done" /\ d.outcome = "failed"
         /\ i # 3 => d.pc = "rollback" /\ d.restored = i
<1> DEFINE n == [c EXCEPT !.restored = i]
           m == Rolled(n, i)
           d == [m EXCEPT !.lost = TRUE]
<1>1. /\ n \in CallRecord /\ n.pc = "rollback" /\ n.restored = i
      /\ n.op = c.op /\ n.owner = c.owner /\ n.target = c.target /\ n.app = c.app /\ n.start = c.start
      /\ n.sameOwner = c.sameOwner /\ n.foreign = c.foreign /\ n.ownProgram = c.ownProgram
  BY DEF CallRecord
<1> HIDE DEF n
<1>2. /\ m \in CallRecord
      /\ m.op = n.op /\ m.owner = n.owner /\ m.target = n.target /\ m.app = n.app /\ m.start = n.start
      /\ m.sameOwner = n.sameOwner /\ m.foreign = n.foreign /\ m.ownProgram = n.ownProgram
      /\ i = 3 => m.pc = "done" /\ m.outcome = "failed"
      /\ i # 3 => m.pc = n.pc /\ m.restored = n.restored
  BY <1>1, RolledRecord
<1> HIDE DEF m
<1>3. /\ d \in CallRecord /\ d.lost = TRUE /\ d.pc = m.pc /\ d.outcome = m.outcome /\ d.restored = m.restored
      /\ d.op = m.op /\ d.owner = m.owner /\ d.target = m.target /\ d.app = m.app /\ d.start = m.start
      /\ d.sameOwner = m.sameOwner /\ d.foreign = m.foreign /\ d.ownProgram = m.ownProgram
  BY <1>2, MarkedLost
<1> HIDE DEF d
<1>4. /\ d \in CallRecord /\ d.lost = TRUE
      /\ d.op = c.op /\ d.owner = c.owner /\ d.target = c.target /\ d.app = c.app /\ d.start = c.start
      /\ d.sameOwner = c.sameOwner /\ d.foreign = c.foreign /\ d.ownProgram = c.ownProgram
      /\ i = 3 => d.pc = "done" /\ d.outcome = "failed"
      /\ i # 3 => d.pc = "rollback" /\ d.restored = i
  BY <1>1, <1>2, <1>3
<1> QED
  BY <1>4 DEF d, m, n

\* A tree is lost to a call that still runs or to one whose process dies.
LEMMA HalfRestoredSound ==
  ASSUME NEW c, NEW r, CallSound(c, r), c.pc = "rollback", NEW i \in 1 .. 3,
         NEW x \in HalfRestored(r, c, i),
         NEW d \in CallRecord, d.lost = TRUE,
         d.op = c.op, d.owner = c.owner, d.target = c.target, d.app = c.app, d.start = c.start,
         d.sameOwner = c.sameOwner, d.foreign = c.foreign, d.ownProgram = c.ownProgram
  PROVE  CallFound(d) /\ StageSound(d, x) /\ Writable(d)
<1>1. CallFound(c) /\ StageSound(c, r) /\ Writable(c) /\ c.start \in Registry /\ c \in CallRecord
  BY DEF CallSound, CallFound, RegistrySound
<1>2. PICK from \in {NoTrees, BareTrees(c.start)} : x = RestoredRegistry(r, [c EXCEPT !.start = from], i)
  BY DEF HalfRestored
<1>3. Unregistered(from)
  BY <1>1, HalfRestoredTrees
<1>4. CallFound(d) /\ Writable(d) /\ StageSound(d, r)
  BY <1>1, LossyCall
<1>5. PICK b : b = [c EXCEPT !.start = from]
  OBVIOUS
<1>6. b.owner = d.owner /\ b.target = d.target /\ b.app = d.app /\ b.start = from
  BY <1>1, <1>5 DEF CallRecord
<1>7. RestoresFrom(b, d, from) /\ PutsBack(x, r, b, i)
  BY <1>2, <1>5, <1>6 DEF RestoresFrom, PutsBack
<1>8. StageSound(d, x)
  BY <1>3, <1>4, <1>7, TreeBack
<1> QED
  BY <1>4, <1>8

\* A tree is lost, or stays as it is.
LEMMA LossKeeps ==
  ASSUME NEW c, NEW r, CallSound(c, r), NEW i \in 1 .. 3,
         NEW x \in {r} \cup HalfRestored(r, c, i),
         NEW d \in CallRecord, d.lost = TRUE, c.pc = "rollback",
         d.op = c.op, d.owner = c.owner, d.target = c.target, d.app = c.app, d.start = c.start,
         d.sameOwner = c.sameOwner, d.foreign = c.foreign, d.ownProgram = c.ownProgram,
         i = 3 => d.pc = "done" /\ d.outcome = "failed",
         i # 3 => d.pc = "rollback" /\ d.restored = i
  PROVE  CallSound(d, x)
<1>1. CallFound(c) /\ StageSound(c, r) /\ Writable(c)
  BY DEF CallSound
<1>5. CallFound(d) /\ Writable(d) /\ StageSound(d, r)
  BY <1>1, LossyCall
<1>9. StageSound(d, x)
  <2>1. CASE x \in HalfRestored(r, c, i)
    BY <2>1, HalfRestoredSound
  <2> QED
    BY <1>5, <2>1
<1>10. CASE i = 3
  BY <1>5, <1>9, <1>10 DEF CallSound
<1>11. CASE i # 3
  <2>1. d.restored \in 0 .. 2
    BY <1>11
  <2> QED
    BY <1>5, <1>9, <1>11, <2>1 DEF CallSound
<1> QED
  BY <1>10, <1>11

LEMMA RollbackKeeps ==
  ASSUME RegistrationInv, RestoreTree
  PROVE  RegistrationInv'
<1>1. CallSound(call, reg) /\ crashed' = NoCall /\ call.pc = "rollback"
  BY CallRunning DEF RestoreTree
<1>2. PICK c : c = call
  OBVIOUS
<1>3. PICK r : r = reg
  OBVIOUS
<1>4. PICK i : i = c.restored + 1
  OBVIOUS
<1>5. PICK n : n = [c EXCEPT !.restored = i]
  OBVIOUS
<1>7. CallSound(c, r) /\ c.pc = "rollback"
  BY <1>1, <1>2, <1>3
<1>8. PICK x : x = reg'
  OBVIOUS
<1>9. \/ x = RestoredRegistry(r, c, i) /\ call' = (IF i = 3 THEN Returns(n, "failed") ELSE n)
      \/ /\ x \in {r} \cup HalfRestored(r, c, i)
         /\ call' = [(IF i = 3 THEN Returns(n, "failed") ELSE n) EXCEPT !.lost = TRUE]
  BY <1>2, <1>3, <1>4, <1>5, <1>8 DEF RestoreTree
<1>10. CASE x = RestoredRegistry(r, c, i) /\ call' = (IF i = 3 THEN Returns(n, "failed") ELSE n)
  <2>1. CallSound(IF i = 3 THEN Returns(n, "failed") ELSE n, x)
    BY <1>4, <1>5, <1>7, <1>10, RestoreKeeps
  <2>2. CallSound(call', reg')
    BY <1>8, <1>10, <2>1
  <2> QED
    BY <1>1, <2>2, RunningKeeps
<1>11. CASE /\ x \in {r} \cup HalfRestored(r, c, i)
            /\ call' = [(IF i = 3 THEN Returns(n, "failed") ELSE n) EXCEPT !.lost = TRUE]
  <2>1. PICK m : m = Rolled(n, i)
    OBVIOUS
  <2>2. PICK d : d = [m EXCEPT !.lost = TRUE]
    OBVIOUS
  <2>0. c \in CallRecord /\ c.restored \in 0 .. 2
    BY <1>7 DEF CallSound, CallFound
  <2>e. d = [Rolled([c EXCEPT !.restored = i], i) EXCEPT !.lost = TRUE]
    BY <1>5, <2>1, <2>2
  <2>f. i \in 1 .. 3
    BY <1>4, <2>0
  <2>g. /\ d \in CallRecord /\ d.lost = TRUE
        /\ d.op = c.op /\ d.owner = c.owner /\ d.target = c.target /\ d.app = c.app /\ d.start = c.start
        /\ d.sameOwner = c.sameOwner /\ d.foreign = c.foreign /\ d.ownProgram = c.ownProgram
        /\ i = 3 => d.pc = "done" /\ d.outcome = "failed"
        /\ i # 3 => d.pc = "rollback" /\ d.restored = i
    <3> DEFINE y == [Rolled([c EXCEPT !.restored = i], i) EXCEPT !.lost = TRUE]
    <3>1. /\ y \in CallRecord /\ y.lost = TRUE
          /\ y.op = c.op /\ y.owner = c.owner /\ y.target = c.target /\ y.app = c.app /\ y.start = c.start
          /\ y.sameOwner = c.sameOwner /\ y.foreign = c.foreign /\ y.ownProgram = c.ownProgram
          /\ i = 3 => y.pc = "done" /\ y.outcome = "failed"
          /\ i # 3 => y.pc = "rollback" /\ y.restored = i
      BY <1>7, <2>0, <2>f, LostRecord
    <3>2. d = y
      BY <2>e
    <3> HIDE DEF y
    <3> QED
      BY <3>1, <3>2
  <2>3. CallSound(d, x)
    BY <1>7, <1>11, <2>f, <2>g, LossKeeps
  <2>4. CallSound(call', reg')
    BY <1>8, <1>11, <2>1, <2>2, <2>3 DEF Rolled
  <2> QED
    BY <1>1, <2>4, RunningKeeps
<1> QED
  BY <1>9, <1>10, <1>11

LEMMA ReturnKeeps ==
  ASSUME RegistrationInv, ReturnResult
  PROVE  RegistrationInv'
<1>1. CallSound(call, reg) /\ crashed' = NoCall /\ call' = NoCall /\ reg' = reg
  BY CallRunning DEF ReturnResult
<1> QED
  BY <1>1 DEF RegistrationInv

\* The process dies between two writes, or while it restores a tree.
LEMMA DeathKeeps ==
  ASSUME RegistrationInv, ProcessDies
  PROVE  RegistrationInv'
<1>1. CallSound(call, reg) /\ call' = NoCall
  BY CallRunning DEF ProcessDies
<1>2. PICK c : c = call
  OBVIOUS
<1>3. PICK r : r = reg
  OBVIOUS
<1>4. PICK x : x = reg'
  OBVIOUS
<1>5. CallSound(c, r) /\ c \in CallRecord
  BY <1>1, <1>2, <1>3 DEF CallSound, CallFound
<1>6. \/ x = r /\ crashed' = c
      \/ c.pc = "rollback" /\ x \in HalfRestored(r, c, c.restored + 1) /\ crashed' = [c EXCEPT !.lost = TRUE]
  BY <1>2, <1>3, <1>4 DEF ProcessDies
<1>7. CASE x = r /\ crashed' = c
  <2>1. CallFound(crashed') /\ StageSound(crashed', reg')
    BY <1>4, <1>5, <1>7 DEF CallSound
  <2> QED
    BY <1>1, <2>1 DEF RegistrationInv, StageSound
<1>8. CASE c.pc = "rollback" /\ x \in HalfRestored(r, c, c.restored + 1) /\ crashed' = [c EXCEPT !.lost = TRUE]
  <2>1. PICK d : d = [c EXCEPT !.lost = TRUE]
    OBVIOUS
  <2>2. /\ d \in CallRecord /\ d.lost = TRUE
        /\ d.op = c.op /\ d.owner = c.owner /\ d.target = c.target /\ d.app = c.app /\ d.start = c.start
        /\ d.sameOwner = c.sameOwner /\ d.foreign = c.foreign /\ d.ownProgram = c.ownProgram
    BY <1>5, <2>1 DEF CallRecord
  <2>3. c.restored + 1 \in 1 .. 3
    BY <1>5, <1>8 DEF CallSound
  <2>4. CallFound(d) /\ StageSound(d, x)
    BY <1>5, <1>8, <2>2, <2>3, HalfRestoredSound
  <2>5. CallFound(crashed') /\ StageSound(crashed', reg')
    BY <1>4, <1>8, <2>1, <2>4
  <2> QED
    BY <1>1, <2>5 DEF RegistrationInv, StageSound
<1> QED
  BY <1>6, <1>7, <1>8

\* Another program's default is nobody's registration.
LEMMA OtherKeeps ==
  ASSUME RegistrationInv, NEW t \in ShellTargets, OtherTakes(t)
  PROVE  RegistrationInv'
<1>1. call = NoCall /\ call' = NoCall /\ crashed' = NoCall
  BY CallIdle DEF OtherTakes
<1>2. PICK r : r = reg
  OBVIOUS
<1>3. PICK x : x = [r.target[t] EXCEPT !.present = TRUE, !.default = Other]
  OBVIOUS
<1>4. PICK q : q = reg'
  OBVIOUS
<1>5. q = [r EXCEPT !.target[t] = x]
  BY <1>2, <1>3, <1>4 DEF OtherTakes
<1>6. RegistrySound(r) /\ r \in Registry /\ r.target[t] \in TargetKey /\ TargetSound(t, r.target[t])
  BY <1>2 DEF RegistrationInv, RegistrySound, Registry
<1>7. x \in TargetKey /\ x.present /\ x.default = Other /\ x.openWith = r.target[t].openWith
  BY <1>3, <1>6 DEF TargetKey
<1>8. TargetSound(t, x)
  BY <1>6, <1>7, RegistrationAssumption DEF TargetSound
<1>9. /\ q \in Registry /\ q.target[t] = x /\ q.application = r.application
      /\ \A u \in ShellTargets : u # t => q.target[u] = r.target[u]
  BY <1>5, <1>6, <1>7 DEF Registry
<1>10. RegistrySound(q)
  BY <1>6, <1>8, <1>9 DEF RegistrySound
<1> QED
  BY <1>1, <1>4, <1>10 DEF RegistrationInv

\* Every step of registration keeps the invariant.
THEOREM RegistrationInvariance == RegistrationSpec => []RegistrationInv
<1>1. RegistrationInit => RegistrationInv
  <2> SUFFICES ASSUME RegistrationInit PROVE RegistrationInv
    OBVIOUS
  <2>1. /\ AbsentTarget \in TargetKey /\ NoProgram \in ProgramKey /\ NoApp \in ApplicationKey
        /\ AbsentTarget.present = FALSE /\ AbsentTarget.owner = NoValue
        /\ AbsentTarget.default = NoValue /\ AbsentTarget.openWith = {}
        /\ NoApp.owner = NoValue /\ NoApp.types = {}
    BY DEF TargetKey, ProgramKey, ApplicationKey, AbsentTarget, NoProgram, NoApp, Bodies
  <2>2. \A t \in ShellTargets : TargetSound(t, AbsentTarget)
    BY <2>1, RegistrationAssumption DEF TargetSound
  <2>3. ApplicationSound(NoApp)
    BY <2>1 DEF ApplicationSound
  <2>4. NoTrees \in Registry
    BY <2>1 DEF NoTrees, Registry
  <2>5. /\ \A t \in ShellTargets : NoTrees.target[t] = AbsentTarget
        /\ \A a \in Apps : NoTrees.application[a] = NoApp
    BY DEF NoTrees
  <2>6. RegistrySound(NoTrees)
    BY <2>2, <2>3, <2>4, <2>5 DEF RegistrySound
  <2> QED
    BY <2>6 DEF RegistrationInit, RegistrationInv
<1>2. RegistrationInv /\ [RegistrationNext]_registrationVars => RegistrationInv'
  <2> SUFFICES ASSUME RegistrationInv, [RegistrationNext]_registrationVars PROVE RegistrationInv'
    OBVIOUS
  <2>1. ASSUME NEW o \in Owners, NEW app \in Apps \cup {NoValue}, NEW d \in AppDescriptions \cup {Malformed},
               NEW policy \in Policies, NEW t \in Extensions, RegisterFileExtension(o, t, app, d, policy)
        PROVE  RegistrationInv'
    BY <2>1, RegisterExtensionKeeps
  <2>2. ASSUME NEW o \in Owners, NEW d \in AppDescriptions \cup {Malformed},
               NEW policy \in Policies, NEW t \in Schemes, RegisterUriScheme(o, t, d, policy)
        PROVE  RegistrationInv'
    BY <2>2, RegisterSchemeKeeps
  <2>3. ASSUME NEW o \in Owners, NEW t \in ShellTargets, UnregisterTarget(o, t) PROVE RegistrationInv'
    BY <2>3, UnregisterKeeps
  <2>4. ASSUME NEW t \in ShellTargets, OtherTakes(t) PROVE RegistrationInv'
    BY <2>4, OtherKeeps
  <2>5. CASE CaptureTrees
    BY <2>5, CaptureKeeps
  <2>6. CASE WriteNext
    BY <2>6, WriteKeeps
  <2>7. CASE WriteFails
    BY <2>7, FailureKeeps
  <2>8. CASE CommitTrees
    BY <2>8, CommitKeeps
  <2>9. CASE RestoreTree
    BY <2>9, RollbackKeeps
  <2>10. CASE ReturnResult
    BY <2>10, ReturnKeeps
  <2>11. CASE ProcessDies
    BY <2>11, DeathKeeps
  <2>12. CASE UNCHANGED registrationVars
    BY <2>12 DEF registrationVars, RegistrationInv
  <2> QED
    BY <2>1, <2>2, <2>3, <2>4, <2>5, <2>6, <2>7, <2>8, <2>9, <2>10, <2>11, <2>12 DEF RegistrationNext
<1> QED
  BY <1>1, <1>2, PTL DEF RegistrationSpec

\* Registration is a transaction (win32_shell.cpp, registerFileExtension, registerUriScheme and
\* unregisterRegistrationTarget): a failing call leaves nothing behind, others keep their records, a
\* crash leaves the target free for its owner, and what was unregistered is gone.
THEOREM RegistrationsAreAtomic == RegistrationSpec => []RegistrationIsAtomic
<1>1. RegistrationInv => RegistrationIsAtomic
  <2> SUFFICES ASSUME RegistrationInv PROVE RegistrationIsAtomic
    OBVIOUS
  <2>1. PICK c : c = call
    OBVIOUS
  <2>2. PICK r : r = reg
    OBVIOUS
  <2>3. PICK d : d = crashed
    OBVIOUS
  <2>4. c # NoCall => CallSound(c, r)
    BY <2>1, <2>2 DEF RegistrationInv
  <2>5. c.pc # "idle" => c # NoCall
    BY DEF NoCall
  <2>6. FailureLeavesNoTrace
    <3>1. c.pc = "done" /\ c.outcome \in {"refused", "failed"} /\ ~c.lost => r = c.start
      BY <2>4, <2>5 DEF CallSound
    <3> QED
      BY <2>1, <2>2, <3>1 DEF FailureLeavesNoTrace
  <2>c. d.pc # "idle" => d # NoCall
    BY DEF NoCall
  <2>d. d # NoCall => CallFound(d) /\ StageSound(d, r)
    BY <2>2, <2>3 DEF RegistrationInv
  <2>7. ASSUME NEW e \in {c, d}, e.pc # "idle"
        PROVE  /\ \A k \in Owners \X ShellTargets : k[1] # e.owner => r.program[k] = e.start.program[k]
               /\ \A a \in Apps : e.start.application[a].owner \in Owners \ {e.owner}
                                  => r.application[a] = e.start.application[a]
               /\ \A t \in ShellTargets :
                    IsRegistered(e.start.target[t]) /\ ~SameOwner(e.start.target[t], e.owner) /\ ~e.lost
                    => /\ r.target[t].owner = e.start.target[t].owner
                       /\ r.target[t].default = e.start.target[t].default
    <3>1. CallFound(e) /\ StageSound(e, r)
      BY <2>4, <2>5, <2>7, <2>c, <2>d DEF CallSound
    <3>2. \A k \in Owners \X ShellTargets : k[1] # e.owner => r.program[k] = e.start.program[k]
      <4>1. Program(e)[1] = e.owner
        BY DEF Program
      <4> QED
        BY <3>1, <4>1 DEF StageSound
    <3>3. ASSUME NEW a \in Apps, e.start.application[a].owner \in Owners \ {e.owner}
          PROVE  r.application[a] = e.start.application[a]
      <4>1. ApplicationSound(e.start.application[a]) /\ NoValue \notin Owners
        BY <3>1, RegistrationAssumption DEF CallFound, RegistrySound
      <4>2. a = e.app /\ e.app # NoValue => ~Writable(e)
        BY <3>3, <4>1 DEF Writable, AppBlocked, ApplicationSound
      <4> QED
        BY <3>1, <4>2 DEF StageSound
    <3>4. ASSUME NEW t \in ShellTargets,
                 IsRegistered(e.start.target[t]), ~SameOwner(e.start.target[t], e.owner), ~e.lost
          PROVE  /\ r.target[t].owner = e.start.target[t].owner
                 /\ r.target[t].default = e.start.target[t].default
      <4>1. CASE t = e.target
        <5>1. e.foreign
          BY <3>1, <3>4, <4>1 DEF CallFound
        <5> QED
          BY <3>1, <3>4, <4>1, <5>1 DEF StageSound, TargetFits
      <4>2. CASE t # e.target
        BY <3>1, <4>2 DEF StageSound
      <4> QED
        BY <4>1, <4>2
    <3> QED
      BY <3>2, <3>3, <3>4
  <2>8. OthersKeepTheirs
    BY <2>1, <2>2, <2>3, <2>7 DEF OthersKeepTheirs
  <2>9. TargetSurvivesCrash
    <3>2. ASSUME d # NoCall, IsRegistered(r.target[d.target])
          PROVE  \/ SameOwner(r.target[d.target], d.owner) \/ d.foreign
                 \/ (r.target[d.target].default = Other /\ d.start.target[d.target].default = Other)
      BY <2>d, <3>2 DEF StageSound, TargetFits
    <3> QED
      BY <2>2, <2>3, <3>2 DEF TargetSurvivesCrash
  <2>10. UnregisteredIsGone
    <3>1. c.pc = "done" /\ c.op = "unregister" /\ c.outcome \in {"ok", "cleanupFailed"} => AllGone(c, r)
      BY <2>4, <2>5 DEF CallSound
    <3> QED
      BY <2>1, <2>2, <3>1 DEF UnregisteredIsGone, AllGone, ProgramGone, TargetGone, ApplicationGone
  <2> QED
    BY <2>6, <2>8, <2>9, <2>10 DEF RegistrationIsAtomic
<1> QED
  BY <1>1, RegistrationInvariance, PTL
=============================================================================
