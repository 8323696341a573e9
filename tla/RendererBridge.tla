--------------------------- MODULE RendererBridge ---------------------------
(***************************************************************************)
(* The renderer bridge of a Window: two-phase publication of pointer hit   *)
(* masks by generation, occlusion feedback, and the atomic sidecar that    *)
(* renderer threads read.                                                  *)
(*                                                                         *)
(* Every bridge operation runs on the owner thread; what is concurrent is  *)
(* the renderer worker, which draws a mask for a target it was handed long *)
(* ago and whose result arrives after any number of resizes, clears, losses *)
(* and reopenings.  `epoch' counts the events that make an earlier drawing *)
(* worthless.                                                              *)
(***************************************************************************)
EXTENDS Integers

CONSTANTS Extents,        \* framebuffer extents; 0 is the empty one
          MaxGeneration,  \* largest value of the generation counter (2^64 - 1 in the code)
          MaxEpoch        \* bound: changes of epoch in one behaviour

ASSUME BridgeAssumption ==
  /\ 0 \in Extents /\ Extents \subseteq Nat
  /\ MaxGeneration \in Nat \ {0}
  /\ MaxEpoch \in Nat

VARIABLES lifetime,      \* "closed" | "open" | "pendingFinalize"
          framebuffer,   \* WindowState::framebufferSize
          flags,         \* WindowState: visible, moveResize
          integrated,    \* RendererIntegrationState is allocated; its fields:
          generation,    \*   pointerHitMaskGeneration
          exhausted,     \*   pointerHitMaskGenerationExhausted
          mask,          \*   the active mask: [generation, size]; drawn is a history
          pending,       \*   the reserved target: [generation, size]
          provider,      \*   "detached" | "shown" | "occluded"
          readsEnabled,  \* PresentationPublicationState is allocated
          published,     \*   what renderer threads read from it
          target,        \* what the worker draws for: [generation, extent, epoch]
          told,          \* history: what the OcclusionChanged events of this lifetime last said
          accepted,      \* history: the last generation published
          epoch          \* history: counts framebuffer changes, clears and lifetimes

windowVars == <<lifetime, framebuffer, flags>>
maskVars == <<integrated, generation, exhausted, mask, pending>>
readVars == <<readsEnabled, published>>
historyVars == <<target, told, accepted, epoch>>
vars == <<windowVars, maskVars, provider, readVars, historyVars>>

-----------------------------------------------------------------------------
(* State records *)

NoMask == [generation |-> 0, size |-> 0, drawn |-> 0]
NoPending == [generation |-> 0, size |-> 0]
NoTarget == [generation |-> 0, extent |-> 0, epoch |-> 0]

Flags == {"visible", "moveResize"}
Hidden == [flag \in Flags |-> FALSE]

ClosedDefaults == [framebuffer |-> 0, flags |-> Hidden, occlusion |-> "shown"]

Occlusion == IF provider = "occluded" THEN "occluded" ELSE "shown"

\* publishCachedPresentationState
Cached(extent, shown, occlusion) ==
  [framebuffer |-> extent, flags |-> shown, occlusion |-> occlusion]

\* Owner-side writes reach the sidecar only once it exists.
Publish(values) == published' = IF readsEnabled THEN values ELSE published

NewEpoch == epoch < MaxEpoch /\ epoch' = epoch + 1

-----------------------------------------------------------------------------
(* Invalidation *)

\* Mutation: the counter is advanced past its limit.
AdvanceGeneration_Unsaturated ==
  /\ generation' = IF integrated THEN generation + 1 ELSE generation
  /\ UNCHANGED exhausted

\* Mutation: an invalidation starts the numbering again.
AdvanceGeneration_Restarts == generation' = 0 /\ UNCHANGED exhausted

\* A saturated counter is exhausted for good.
AdvanceGeneration ==
  IF integrated /\ generation < MaxGeneration
  THEN generation' = generation + 1 /\ UNCHANGED exhausted
  ELSE /\ UNCHANGED generation
       /\ exhausted' = IF integrated THEN TRUE ELSE exhausted

\* Without integration state there is no mask, no target and nothing to advance.
InvalidatePointerHitMask ==
  /\ AdvanceGeneration
  /\ mask' = NoMask /\ pending' = NoPending
  /\ UNCHANGED integrated

FinishWindowLifetime ==
  /\ mask' = NoMask /\ pending' = NoPending
  /\ provider' = "detached"

\* Mutation: only the active mask is compared with the new extent.
InvalidatedByExtent_ActiveOnly(extent) == mask.generation # 0 /\ mask.size # extent

\* refreshCachedGeometry: a mask or a target of another extent is invalid.
InvalidatedByExtent(extent) ==
  \/ mask.generation # 0 /\ mask.size # extent
  \/ pending.generation # 0 /\ pending.size # extent

-----------------------------------------------------------------------------
(* Window lifetime and native messages *)

Open(extent, shown) ==
  /\ lifetime = "closed"
  /\ NewEpoch
  /\ lifetime' = "open"
  /\ framebuffer' = extent
  /\ flags' = [Hidden EXCEPT !["visible"] = shown]
  /\ Publish(Cached(extent, flags', "shown"))
  /\ told' = "shown"
  /\ UNCHANGED <<maskVars, provider, readsEnabled, target, accepted>>

\* open() that fails natively leaves the sidecar reset and nothing else.
OpenFails ==
  /\ lifetime = "closed"
  /\ Publish(ClosedDefaults)
  /\ UNCHANGED <<windowVars, maskVars, provider, readsEnabled, historyVars>>

\* WM_SIZE, WM_MOVE, WM_DPICHANGED through refreshCachedGeometry
Resize(extent) ==
  /\ lifetime = "open"
  /\ extent # framebuffer
  /\ NewEpoch
  /\ framebuffer' = extent
  /\ IF InvalidatedByExtent(extent) THEN InvalidatePointerHitMask ELSE UNCHANGED maskVars
  /\ Publish([published EXCEPT !.framebuffer = extent])
  /\ UNCHANGED <<lifetime, flags, provider, readsEnabled, target, told, accepted>>

\* WM_SHOWWINDOW, WM_ENTERSIZEMOVE, WM_EXITSIZEMOVE
FlagMessage(flag, value) ==
  /\ lifetime = "open"
  /\ flags[flag] # value
  /\ flags' = [flags EXCEPT ![flag] = value]
  /\ Publish([published EXCEPT !.flags = [@ EXCEPT ![flag] = value]])
  /\ UNCHANGED <<lifetime, framebuffer, maskVars, provider, readsEnabled, historyVars>>

\* WM_DESTROY and WM_NCDESTROY that close() did not ask for
NativeLoss ==
  /\ lifetime = "open"
  /\ NewEpoch
  /\ lifetime' = "pendingFinalize"
  /\ flags' = Hidden
  /\ InvalidatePointerHitMask
  /\ Publish(ClosedDefaults)
  /\ UNCHANGED <<framebuffer, provider, readsEnabled, target, told, accepted>>

\* close(): the mask and the target are gone before the native close is attempted.
Close ==
  /\ lifetime # "closed"
  /\ lifetime' = "closed"
  /\ framebuffer' = 0 /\ flags' = Hidden
  /\ InvalidatePointerHitMask /\ FinishWindowLifetime
  /\ Publish(ClosedDefaults)
  /\ told' = "shown"
  /\ UNCHANGED <<readsEnabled, target, accepted, epoch>>

\* A failed native close has invalidated them all the same.
CloseFails ==
  /\ lifetime # "closed"
  /\ NewEpoch
  /\ InvalidatePointerHitMask
  /\ UNCHANGED <<windowVars, provider, readVars, target, told, accepted>>

-----------------------------------------------------------------------------
(* Bridge operations on the owner thread *)

\* Mutation: the occlusion already reported is not published with the rest.
EnableConcurrentPresentationReads_NotOccluded ==
  /\ lifetime = "open" /\ ~readsEnabled
  /\ readsEnabled' = TRUE
  /\ published' = Cached(framebuffer, flags, "shown")
  /\ UNCHANGED <<windowVars, maskVars, provider, historyVars>>

EnableConcurrentPresentationReads ==
  /\ lifetime = "open" /\ ~readsEnabled
  /\ readsEnabled' = TRUE
  /\ published' = Cached(framebuffer, flags, Occlusion)
  /\ UNCHANGED <<windowVars, maskVars, provider, historyVars>>

AttachOcclusionProvider ==
  /\ lifetime = "open" /\ provider = "detached"
  /\ integrated' = TRUE
  /\ provider' = "shown"
  /\ Publish([published EXCEPT !.occlusion = "shown"])
  /\ UNCHANGED <<windowVars, generation, exhausted, mask, pending, readsEnabled, historyVars>>

\* A changed report is stored, published and announced by OcclusionChanged.
ReportOcclusion(value) ==
  /\ lifetime = "open" /\ provider \notin {"detached", value}
  /\ provider' = value
  /\ Publish([published EXCEPT !.occlusion = value])
  /\ told' = value
  /\ UNCHANGED <<windowVars, maskVars, readsEnabled, target, accepted, epoch>>

DetachOcclusionProvider ==
  /\ lifetime = "open" /\ provider # "detached"
  /\ provider' = "detached"
  /\ Publish([published EXCEPT !.occlusion = "shown"])
  /\ told' = IF provider = "occluded" THEN "shown" ELSE told
  /\ UNCHANGED <<windowVars, maskVars, readsEnabled, target, accepted, epoch>>

GenerationLeft == ~exhausted /\ generation < MaxGeneration

\* beginPointerHitMaskUpdate on a backend with hit masks; the worker may take the target.
BeginPointerHitMaskUpdate ==
  /\ lifetime = "open"
  /\ GenerationLeft
  /\ framebuffer # 0
  /\ integrated' = TRUE
  /\ generation' = generation + 1
  /\ pending' = [generation |-> generation', size |-> framebuffer]
  /\ target' \in {target, [generation |-> generation', extent |-> framebuffer, epoch |-> epoch]}
  /\ UNCHANGED <<windowVars, exhausted, mask, provider, readVars, told, accepted, epoch>>

\* An empty framebuffer has no mask; the integration state is allocated all the same.
BeginRejected ==
  /\ lifetime = "open"
  /\ GenerationLeft
  /\ framebuffer = 0
  /\ integrated' = TRUE
  /\ UNCHANGED <<windowVars, generation, exhausted, mask, pending, provider, readVars, historyVars>>

\* No generation is left: the last target is withdrawn.
BeginExhausted ==
  /\ lifetime = "open"
  /\ ~GenerationLeft
  /\ exhausted' = TRUE
  /\ pending' = [pending EXCEPT !.generation = 0]
  /\ UNCHANGED <<windowVars, integrated, generation, mask, provider, readVars, historyVars>>

\* publishPointerHitMask of the worker's result.  A stale generation, another extent or a
\* failed allocation leave everything as it was.
PublishPointerHitMask ==
  /\ lifetime = "open"
  /\ target.generation # 0 /\ target.generation = pending.generation
  /\ pending.size = framebuffer /\ target.extent = framebuffer
  /\ mask' = [generation |-> target.generation, size |-> framebuffer, drawn |-> target.epoch]
  /\ pending' = NoPending
  /\ accepted' = target.generation
  /\ UNCHANGED <<windowVars, integrated, generation, exhausted, provider, readVars, target, told, epoch>>

ClearPointerHitMask ==
  /\ lifetime = "open"
  /\ NewEpoch
  /\ InvalidatePointerHitMask
  /\ UNCHANGED <<windowVars, provider, readVars, target, told, accepted>>

-----------------------------------------------------------------------------

Init ==
  /\ lifetime = "closed" /\ framebuffer = 0 /\ flags = Hidden
  /\ integrated = FALSE /\ generation = 0 /\ exhausted = FALSE
  /\ mask = NoMask /\ pending = NoPending /\ provider = "detached"
  /\ readsEnabled = FALSE /\ published = ClosedDefaults
  /\ target = NoTarget /\ told = "shown" /\ accepted = 0 /\ epoch = 0

Next ==
  \/ \E extent \in Extents : Resize(extent) \/ \E shown \in BOOLEAN : Open(extent, shown)
  \/ \E flag \in Flags, value \in BOOLEAN : FlagMessage(flag, value)
  \/ \E value \in {"shown", "occluded"} : ReportOcclusion(value)
  \/ OpenFails \/ NativeLoss \/ Close \/ CloseFails
  \/ EnableConcurrentPresentationReads \/ AttachOcclusionProvider \/ DetachOcclusionProvider
  \/ BeginPointerHitMaskUpdate \/ BeginRejected \/ BeginExhausted
  \/ PublishPointerHitMask \/ ClearPointerHitMask

Spec == Init /\ [][Next]_vars

-----------------------------------------------------------------------------
(* Properties *)

Generations == 0..MaxGeneration

WindowType ==
  /\ lifetime \in {"closed", "open", "pendingFinalize"}
  /\ framebuffer \in Extents
  /\ flags \in [Flags -> BOOLEAN]
  /\ provider \in {"detached", "shown", "occluded"}
  /\ readsEnabled \in BOOLEAN
  /\ published \in [framebuffer : Extents, flags : [Flags -> BOOLEAN], occlusion : {"shown", "occluded"}]
  /\ told \in {"shown", "occluded"}

MaskType ==
  /\ integrated \in BOOLEAN /\ exhausted \in BOOLEAN
  /\ generation \in Generations /\ accepted \in Generations
  /\ mask \in [generation : Generations, size : Extents, drawn : 0..MaxEpoch]
  /\ pending \in [generation : Generations, size : Extents]
  /\ target \in [generation : Generations, extent : Extents, epoch : 0..MaxEpoch]
  /\ epoch \in 0..MaxEpoch

\* Type correctness; the generation never leaves its width.
TypeOK == WindowType /\ MaskType

\* A mask that hit-tests the pointer was drawn for this lifetime and for the framebuffer as
\* it is now, with no resize (not even one that was undone), clear or loss since its target
\* was handed out: the generation check rejects every older drawing.
ActiveMaskIsCurrent ==
  mask.generation # 0 => /\ lifetime = "open"
                         /\ mask.size = framebuffer
                         /\ mask.drawn = epoch

\* What makes the generation check sufficient: the pending target is newer than every
\* accepted one, belongs to this extent, and if it is the worker's, to this epoch.
TargetInv ==
  /\ accepted <= generation /\ target.generation <= generation
  /\ mask.generation # 0 => integrated
  /\ pending.generation # 0 =>
       /\ integrated /\ lifetime = "open"
       /\ pending.size = framebuffer
       /\ pending.generation > accepted /\ pending.generation <= generation
       /\ target.generation = pending.generation => target.epoch = epoch

\* Published generations only grow, across lifetimes and up to the counter's limit: no
\* generation is accepted twice and none is reissued (invalidatePointerHitMask saturates).
GenerationsGrow ==
  [][accepted' # accepted => accepted' > accepted /\ accepted' <= generation]_vars

\* A renderer thread that reads the sidecar between owner-thread handlers sees exactly the
\* owner's values while the window is open and closed defaults from the loss of the native
\* window until the next successful open.
PublicationFollowsWindow ==
  readsEnabled =>
    published = IF lifetime = "open" THEN Cached(framebuffer, flags, Occlusion) ELSE ClosedDefaults

\* The OcclusionChanged events of an open window end at its occlusion, through attach,
\* report and detach in any order.
OcclusionEventsAgree == lifetime = "open" => told = Occlusion

\* What threads outside the owner see of a window, by reading or by events, is what the
\* window is: the published values while it is open, closed defaults otherwise, and the
\* occlusion last told to the consumer of events.
RendererSeesTheWindow == TypeOK /\ PublicationFollowsWindow /\ OcclusionEventsAgree
=============================================================================
