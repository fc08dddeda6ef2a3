# Formal models of robotgo

TLA+ modules that model the stateful parts of robotgo, the TLC configurations
that check them on small instances, and TLAPS proofs of the properties that
matter most. Paths below are relative to the repository root (`src/`).

## 1. Inventory: the system and its state

robotgo automates a desktop from Go: it injects keyboard and pointer input,
captures the screen, drives windows and accessibility trees, and offers these
as a capability-limited session to software agents (`agent/`, `agent/mcpserver`).
What makes it hard is that almost everything it touches is *shared*: the X
server's keyboard mapping and pressed keys, a D-Bus portal session, a desktop
another person is using. Its central promises are about custody (what robotgo
pressed or rewrote is undone), authority (an action runs at most once, on what
was observed, within its budget) and orderly shutdown (Close wins against every
operation in flight).

| component | source | state | operations | hard behaviour |
|---|---|---|---|---|
| X11 crash guardian | `internal/x11input/guardian_reexec_linux.go` | mapping claims (before/after/unresolved), owned inputs, server grab, cleanup deadline | one dispatch per parent request; cleanup after Close or loss of the parent | lost replies, foreign clients between grabs, crash of the parent, unresponsive server |
| guardian channel | `internal/x11input/guardian_linux.go` | active request id, response slot, event queue, terminal error, helper process | request, event delivery, Close, reader goroutine | response vs timeout vs end of stream; exactly one terminal event |
| X11 backend | `internal/x11input/{backend,keyboard,pointer}_linux.go` | key and button references, scratch slots, cleanup-pending flag | tap, toggle, type, click, close | partial failure inside a server grab; modifiers shared by several holds |
| portal input | `remote_desktop_input.go`, `key_ownership_cgo.go`, `mouse_ownership_cgo.go` | session, generation, pending start/operation, closing count, key and button references | Start, Close, leases, hold/release | Close racing Start and a transaction; references of an older session |
| portal sessions | `input/portal`, `screen/portal` | D-Bus session path, closed flag, signal matches, PipeWire fd | CreateSession … Start handshake, notify, Close | predicted vs returned paths, ambiguous errors, session closed by the compositor |
| ScreenCast capture | `screencast_capture.go`, `screen/portal/pipewire*.go` | active capture, cached frame, generation | Start, frame, Close | Close during capture, stale frame on timeout, crop arithmetic |
| agent session | `agent/session.go`, `agent/policy.go` | owner claim, operation gate, budgets, pressed inputs, taint | run, Close, actions | budget vs concurrency, Close retry, input left down |
| observations and capability leases | `agent/observation.go`, `agent/capability.go`, `agent/element_action.go` | leases (issued, reserved, consumed, invalidated, expired), capture buffers | issue, reserve, consume, release | single use under races, expiry, release during use |
| recorder, trace, conditions, flow planner | `agent/recorder.go`, … | recorded events, steps, retries | record, replay, wait, plan | expiry and detach against concurrent events |
| MCP server | `agent/mcpserver`, `cmd/robotgo-mcp` | adapter state, pending images | tool calls, Close | images cleared exactly once, retryable Close |
| accessibility, window back ends, other platforms | `internal/accessibility`, `internal/*window`, `internal/darwininput`, `internal/windowsinput`, `window_backend.go` | connections, windows, pressed modifiers | queries and actions | stale handles |
| Wayland output | `internal/waylandoutput` | registry, outputs, wire buffer | discovery, events | message framing, removal during discovery |
| test and release tooling | `internal/portalrunner`, `internal/compositorevidence`, `internal/releaseevidence`, `scripts/` … | files, virtual machines | batch steps | not part of the library's runtime |

### What makes each part correct

* **Guardian**: a mapping that is not what the other clients want is claimed and
  its original is remembered; every input it may hold is owned; nothing of
  another client is overwritten; a clean outcome means nothing is left; the
  helper ends whatever the server does.
* **Channel**: a response answers the request that is waiting for it, never a
  later one; the end of the stream wakes every waiter and is delivered once;
  Close kills a helper that does not exit, and says so when it cannot be reaped.
* **Backend**: what the backend believes it holds covers what the server holds;
  a shared modifier goes up with its last hold.
* **Portal input**: after Close returns no operation of the old session succeeds,
  no session is leaked by a Start that lost the race.
* **Portal sessions and ScreenCast**: whatever a failed handshake may have made
  is closed; a native stream outlives everybody who is inside it.
* **Agent**: an action consumes its capability at most once; budgets are never
  exceeded; Close leaves no input it knows to be pressed without keeping the
  claim on the desktop; a status tells what the action did.
* **Views and MCP server**: pixels always have somebody who wipes them, and none
  are left or sent once the server is closed.

## 2. The modules

| module | models | role |
|---|---|---|
| `DesktopCustody` | – | abstract: what a custodian of shared input state promises |
| `X11Guardian` | `guardian_reexec_linux.go` | the helper process; implements `DesktopCustody` |
| `GuardianChannel` | `guardian_linux.go` | the parent's end of the stream to the helper, and the helper's life |
| `X11Backend` | `backend_linux.go`, `keyboard_linux.go`, `pointer_linux.go` | what the backend believes it holds, and its scratch keycodes |
| `OwnedInputs` | – | abstract: one owner of the desktop's input, who presses until sealed and gives the claim back when nothing is held |
| `AgentSession` | `agent/session.go`, `observation.go`, `verification.go` | actions, pressed inputs, the claim and `Close`; implements `OwnedInputs` |
| `SingleUseAuthority` | – | abstract: an authority that is granted on evidence and used at most once |
| `SemanticAction` | `agent/capability_lease.go`, `element_action.go`, `target_resolver.go`, `observation.go` | leases and semantic actions; implements `SingleUseAuthority` |
| `AgentViews` | `agent/view.go`, `analysis.go`, `observation.go`, `target_evidence.go`, `mcpserver/server.go` | the pixels of a session that serves an MCP client, from the native read to the response |
| `PortalHandshake` | `input/portal/remote_desktop_open_linux.go`, `screen/portal/screencast_linux.go` | opening a portal session over D-Bus |
| `ScreenCast` | `screencast_capture.go`, `screen/portal/pipewire*.go` | the one capture of a process; extends `PortalHandshake` |
| `PortalInput` | `remote_desktop_input.go`, `key_ownership_cgo.go`, `mouse_ownership_cgo.go`, `input/portal` | one RemoteDesktop session shared by all calls, and the ledger of held inputs |
| `…Proofs` | – | theorems about nine of them in eight modules; `ScreenCastProofs` holds those of `PortalHandshake` as well (section 4) |
| `MC…` | – | constants, symmetry sets and small functions for TLC |

The modules meet where the code's parts do. `AgentSession`, `SemanticAction` and
`AgentViews` are three views of one `agent.Session`: all take its action gate and
end with its `Close`, and each leaves the others' state out (a session's inputs
in `AgentViews` are one step that may fail; a semantic action is not an action
of `AgentSession`). `PortalInput` takes the opening of a session as one step
that succeeds or fails; `PortalHandshake` is that step in detail. The
guardian's channel shows the helper as a stream, `X11Guardian` as its dispatches.

Every module states its granularity and its assumptions in its head comment.
Operators called *fault* in a comment are not part of any specification: each
is what a definition would be after one plausible slip in the code (a dropped
guard, a forgotten reset), kept so that every property can be seen to fail.

### X11Guardian

The helper owns the X connection: `owned`, `before`, `after` and `unresolved`
are its `ownedKeys`/`ownedButtons` and `mappingClaims`; `mapping`, `ours` and
`busy` are the server. Each `Request` is one dispatch; `Cleanup` follows
`cleanup`: grab, release, (after a crash) yield for the settle time, release
again, restore what matches, yield to let go of busy keys, restore once more,
ungrab, close. The watchdogs are `DispatchTimeout`, `CleanupTimeout` and
`DeadlinePasses`. A request can be `lost`: an error although the server did
it. `otherImage` is history: the image the *other* clients last gave a keycode.

### GuardianChannel

Requests are serialised by `lock` (`requestMu`) over one reusable response
slot. The reader takes a frame off the stream in one step and delivers it in
another; `finish` runs in four steps, because it marks the channel, answers the
active request and closes the socket under different locks. The helper is
whatever the stream shows: it answers late, reports, or exits; what is in flight
when the socket closes is lost.

The end of `Close` and of a failed `Dial` waits twice, and each wait is bounded:
`Close` for the helper to exit (`ReapTimeout`), both for a killed one to be
reaped (`KillTimeout`). `Kill` only sends the signal, a helper that is "killed"
exits in its own time or never, and `KillFails` is the kill that does not work.
`processErr` is what the error that is returned says about this: that the kill
failed, that the helper was not reaped.

### X11Backend

A transaction runs inside a server grab, so it is one step. `Breaks` is the loss
of the connection after any part of the events of a call. The two histories
`doubt` (a failed request had an effect the backend cannot know of) and
`mistyped` are read only by properties. `Contested` limits which inputs the
other clients use, `Images` what they write, `Texts` what is typed: they bound
the environment, not the backend.

### SemanticAction

`pc` names the stretch of `ActUIElement` or `ResolveUITarget` a caller is in;
`gate` is the action gate that serialises them with `InspectUI`, `View` and
`Close`. `ReleaseObservation`, closing a capture and the clock take no gate, so
they interleave everywhere; this is where the care is needed. Some choices:

* `InspectUI`/`View` hold the gate from beginning to end and are one step;
* `reads` stands for the observation and the query quota, which move together
  for condition checks;
* `usedLeases` is the number of records that are not absent: records leave the
  table only in `Close`;
* `Commit` is not guarded by `~over`: the context of the native call follows the
  session's context asynchronously, and only the lease is consulted;
* `Mutate` counts a native call that was attempted;
* the image is consulted as evidence only when a resolution used one.

### AgentSession

A process is a goroutine in `Execute`, `DryRun` or `Close`; a step is what
happens between two driver calls, context checks or lock operations. Sessions
follow each other in one process and compete for `activeOwner`. Policy, rate,
capability, targets and audit may refuse anything at any time; only refusals
that depend on modelled state are guards. `touched` is history: the call may
have changed the desktop.

An action that fails may leave an input down in two ways. A press, a chord, or a
click that says so (`ErrInputReleasePending`, `mouse_ownership_cgo.go:220`) puts
it into the ledger and taints the session. But the error of a text or of a wheel
event is only wrapped (`session.go:818`), and so is that of a click without that
error (the portal's, `remote_desktop_input.go:496`): the session neither records
nor releases what the driver left down, is not tainted, and gives its claim back
with the input down. The history `stray` has these inputs (`Ambiguous`), and a
later session finds them there. A session that records one or releases it itself
takes it out. `docs/CHANGELOG.md:216-219` says that a failed release taints the
session, which then stays the owner until the clean-up succeeds; for the releases
inside a text that is not so.

It is still assumed of the driver that a call that succeeds has done what it
says, and that a press reported as `ErrInputNotApplied` or `ErrInputOwnership`
pressed nothing. `Callers`, the goroutines that run actions, are
a bound: every goroutine may call `Close`. The name of a closed observation that no
call refers to any more stands for the next one.

### AgentViews

A view passes from the native worker that reads it to the session, to a
response's content and to the MCP SDK. `buffer`, `png`, `content`, `crop` and
`evidence` say where pixels are, `records`, `tracked` and `pending` who has
promised to wipe them. The session serves its MCP client and, by `Application`,
the application that made it, with these choices:

* the native reads are the synchronous ones, which can be abandoned and not
  ended; the reads for Wayland take a context;
* a late image is wiped by its worker; a caller that is gone has nothing;
* the application takes views and analyses without a response, also after the
  server is closed;
* `ReleaseObservation` is the application's, takes no gate, and may name any
  observation the client or the application has seen;
* policy, backend, limits and audit are one choice, `Fail` or `Refuse`;
* inputs and the recorder are closed elsewhere: `CloseEnds` may fail, so `Close`
  may be called again.

### PortalHandshake and ScreenCast

A request is sent, replied to and answered by a signal that may come before
the reply, late, malformed or never; the session may be made at the predicted
path or another, and be closed at any time. `path` is the session that clean-up
owes a `Close`, `known` those it has been told are closed. `ScreenCast` adds the
process's one capture with its operation lock, the pending start a `Close`
cancels, and the two locks and flags between a reader in native code and
`interrupt`/`free`. A call into PipeWire ends with a frame, an error or a
time-out. Assumed of the portal: it makes no session for a request it rejects,
handles a connection's calls in order and ends the sessions of a lost one.

### PortalInput

A device (keyboard, pointer) is the goroutine that has its mutex; controllers
call `Start`, `Close` and `CloseWaylandInput`. Every event goes out in `Send`
and comes back, or not, in `Deliver`, with the cancellation and the end of the
session in between. `refs` and `holds` carry generations as in the code, so
references of an older session are dead without being erased. A text presses and
releases its keysyms without a look at the references
(`remote_desktop_input.go:517-586`): if a chord holds the key, typing it lets go
of it, and the ledger goes on saying that it is held. The history `raised` has
such keys until they are pressed again (`Apply`). `doubt` marks
sessions with a press nobody accounts for: a click or text whose deadline
passed right after a press, and a session `CloseWaylandInput` wiped although
it was started after the cancellation. Native input is unavailable, every
session grants every device; moves, scrolling and touch hold nothing. It is
assumed of the compositor that a session that ends releases what it pressed.

## 3. What the runs show

All runs are exhaustive. `CHECK_DEADLOCK FALSE` appears where the bounds, or an
ended session, leave nothing to do.

| run | instance | what it shows |
|---|---|---|
| `guardian` | 1 keycode, 1 button, 2 foreign images, a server that canonicalises ours, timers fair | no key stranded, every original recoverable, foreign images survive, settle time respected, no spurious failure; implements `DesktopCustody`; cleanup ends although the X server may never answer |
| `channel` | 2 callers, owner, 2 waiters, 3 requests, 1 event | each response reaches its request, nothing is sent after an unknown outcome, everyone is woken; a `Close` or failed `Dial` that returns without saying otherwise leaves no helper |
| `backend` | shift, a button, 2 scratch keycodes of which others use one, texts `uv` and `uu` | ledger of holds with shared modifiers, foreign holds kept, what is typed is what was asked for, closing gives every keycode back |
| `backend_blocked_cleanup` | 2 scratch keycodes and a button others use | finding 1 |
| `agent_session` | 1 caller and a second closer, 2 sessions, 1 action and 3 reads each, five kinds of action | implements `OwnedInputs`, which tells what is held from what a failed text or click left; a dispatch rests on live evidence; statuses are true; every call returns |
| `semantic_leases` | 2 callers, 1 lease, a tree and an image, 3 instants | at most once, grounded at commit, every answer final and truthful, quiet after Close; implements `SingleUseAuthority` |
| `semantic_quota` | 2 callers, reads for one verified action with 1 probe and 2 checks, and no more than 2 to spare | both quotas exact; every call and `Close` return |
| `agent_views` | a tool call and the application, 1 closer that may retry, 2 views, 1 analysis, 1 release | pixels are owned at every moment; nothing is left or sent after `Server.Close`; every call returns although a native read never does |
| `screencast` | 2 attempts, a starter, a closer, a reader, 2 troubles | no native call on a freed stream; nothing left behind; every session settled with the portal; `Close` returns |
| `portal_ledger` | keyboard and pointer, Ctrl shared by two holds, a text that types the key of one of them, 2 sessions | the ledger and its reference counts are what the compositor holds down, but for a key that a text let go of |
| `portal_close` | 2 controllers, 2 starts, 1 close | no session is lost; `CloseRemoteDesktopInput` returns although nobody answers the dialog |
| `portal_wayland_close` | 2 controllers, 1 start, 1 close | finding 2 |

`X11Backend.Ledger` and `PortalInput.LedgerExact` are conjunctions: besides what
is held they count the holds of a shared modifier and its references.

**Bounds.** One keycode is enough for the guardian because claims of different
keycodes meet only in the shared server grab, outcome and deadline;
`X11GuardianProofs` removes the bound. In the channel three requests give one
that times out, one under way and one behind it, while the owner's two (hello
and close) come on top. In `agent_session` one action per session meets two
closes and the next session's claim; three reads are one observation, its
recapture and the capture that verifies. `AgentSessionProofs` removes the
bounds. Two callers and one lease make the contention of `semantic_leases`;
proofs remove that bound too. `MaxTime` is the last instant of a clock that may
stop anywhere: with an evidence age of 1 and a lifetime of 2, a lease expires
through its evidence, and without evidence through its own lifetime. In
`agent_views` two views let one be read, late or in a response while the other
is analysed or released; `AgentViewsProofs` removes the bounds. Two attempts
of `screencast` give one that replaces or follows the other, and two troubles
the loss of a session during the handling of another. In `PortalInput` two
sessions are the only way generations meet; `Generations` counts the closes
that failures cause as well. The texts of `backend` need two scratch keycodes,
or one keycode twice.

**Fairness** is assumed only of what the code schedules:

* guardian: timers and the end of the process, never an answer of the server;
* channel: goroutines that can run and timers; the helper need not do anything,
  not even exit when it has been killed: the owner's return in `RequestsReturn`
  is the work of the two timeouts at its end;
* agent session and semantic actions: native and audit calls are bounded by
  timeouts, so the holder of the gate goes on; the gate is a channel that serves
  its waiters in order (strong on entering); a wait ends when the session is done;
* views: every caller goes on or times out, the closer goes on (strong: neither
  the gate nor the slot of a worker passes a waiter by for ever). A native
  read or analysis need never return;
* ScreenCast: goroutines and mutexes (strong); an attempt whose context is done
  goes on; the portal need not answer and the user may ignore the dialog;
* portal: goroutines, mutexes served in order (strong), events with a deadline.
  An open returns *once it has been cancelled*; the user may leave the consent
  dialog open for ever.

### Findings

1. `backend_blocked_cleanup`: `README.md:483` says that a cleanup blocked by a
   pressed scratch keycode waits for *external* state to be released. After a
   tap whose press was done and whose release failed on a usable connection,
   the key is the backend's own, recorded nowhere, and every retry ends alike.
2. `portal_wayland_close`: `CloseWaylandInput` cancels portal I/O before it
   waits for the device locks, as its comment promises; a call that has its
   device lock but not yet a context, behind a `Start` that begins after the
   cancellation, is not reached, and the close waits for the dialog.

## 4. What is proved

TLAPS checks the theorems below for **every** value of the constants. They rest
on the named assumptions of the modules: `ImageAssumption` (foreign and own
images are disjoint, the server's canonical form of an own image is an own
image) for the guardian; that quotas and bounds are naturals and placeholders
differ from real names (`SemanticAssumption`, `NameAssumption`,
`AgentViewsAssumption`, the channel's) elsewhere; that actions are well formed
and buttons are no keys (`SessionAssumption`); that keys are no buttons and the
first keymap, the modifiers and the texts are of the declared kinds
(`BackendAssumption`); that a device is no controller, the keyboard is a device,
there are finitely many devices and chords and only a chord of keys has
modifiers (`PortalAssumption`); that attempts are numbered and nobody is a
goroutine (`ScreenCastAssumption`). No theorem has a hypothesis of its own.

**X11Guardian.** The checked invariants are not inductive. `Inv` adds
`MismatchIsForeign` (a resolved claim that does not match is really somebody
else's, without which giving it up could abandon an original), `ClosedClean`
(a clean end is reached only with nothing owned and nothing claimed),
`GrabHeld` (the phases that rewrite have the grab) and `SettleDone` (past the
settle the keystrokes have been read, or cleanup is in error). One lemma per
group of actions shows that `Inv` is kept. `Rewrites` then says which steps
change a keycode at all; `ForeignSurvives`, `RestoreGuarded`, `SettleRespected`
and the refinement follow from it. `Blamed` collects why a cleanup may fail (an
error was recorded for a lost answer, a passed deadline or a broken parent, and
the last ungrab is reached with something left only after one of the first two)
and gives `NeverSpurious`. `GuardianImplementsCustody` maps dispatches
and cleanup to `Handle`, interference to `Foreign`, outcomes to
`EndClean`/`EndDirty`.

**SemanticAction.** The invariant is built in layers, each inductive on top of
the ones below:

| layer | says | gives |
|---|---|---|
| `Typed` | types; calls present only tokens that were given out | `TypeCorrect` |
| `Gated` | whoever is inside has the gate; after Close has it, calls only report | `CloseIsQuiet` |
| `Ledger` | a consumed, unused lease belongs to a call that is about to act | `LeaseActsAtMostOnce` |
| `Grounded` | a lease that can act rests on retained observations and ends before its image is too old | `RootsStayLive`, `CommitIsGrounded`, `ActionsImplementAuthority` |
| `Booked` | reserved leases are exactly those some call booked; a call without booking knows its lease's fate | `ProofIsTruthful`, `AnAnswerIsFinal` |
| `Funded` | whoever has the gate has its remaining reads and its action paid for | `QuotaAlwaysHolds`, `VerificationIsFunded` |

`Ledger` is what makes the refinement go through: without it `CloseLeases` might
kill a committed authority, which the abstract `Stop` does not allow; `Gated`
excludes that. `ActMoves` and `ActKinds` classify the steps of `ActUIElement`,
so that each layer treats only the five that touch leases.

**AgentSession.** `Inv` is layered in the same way. `Claimed`:
every session that was created and is not cleaned up is the owner, and clean-up
comes after its `Close` has passed the gate. `Gated` and `Kinds`: who is
inside an action has the gate, for an action of the kind its point belongs to.
`Books`: what is down is in the owner's ledger, and a ledger has only the input
of the action under way unless it is tainted; only what is `stray` may be missing. From
this `SessionImplementsOwnedInputs` maps every driver call, the sealing by the
closer that has waited for the gate and the return of the claim; the abstract
`held` is what is down and not stray, `left` what is stray, and a failed text or
click is the abstract `Leave`, which only an owner who is not sealed can do and
which touches nothing that is held. The refinement therefore says how far the
damage of such a failure goes. `Touched` ties
the status of a call to what it did (`StatusIsHonest`), `Grounds` a dispatch to
an observation that its capture lock keeps alive (`DispatchIsGrounded`).

**GuardianChannel.** `Due`: the request that has the lock is the last one, and
while its response is due nothing is on the way to the slot. With `Delivery`
(what is on the way, or in the slot, is for the last request or is the end) answers are their own and the one slot is empty for whoever fills it;
`LastOne` says that a request with an unknown outcome is the last on the stream,
`Ended` says of an owner who is past the kill that the helper is not running or the
kill has failed, and of one who is back that the helper has exited or has been
reported as not reaped: an inductive part for each of the two waits of
`NoHelperStays`.

**X11Backend.** `Ledger` and `TypesItsSymbol` are inductive only together and
with four more facts. `Phased`: a doubt (an answer was lost) lasts until the
connection ends, a connection whose cleanup is pending is only closed again, and
a text that goes on has a symbol left. `Counted`: the set of chords held is
finite, so that the users of a modifier can be counted, and empty once they have
been released. `Slotted`: only slots of the pool are bound. `Accounted`:
without a doubt every keycode the connection rewrote still carries what it was
bound to, and none of them is another connection's. The two action properties
are carried along: every step is a `ForeignStep` (`NothingForeignIsTouched`) and
a `CleanStep` (`CloseIsClean`). What a call may bind is stated once (`Fits`), and
so is the loss of the connection after any part of its events (`BreaksInv`), the
case in which the ledger would be wrong first.

**PortalInput.** `Locked` says who has the operation mutex, `Taken` that a
session in somebody's hands is in those of the mutex's holder, `Asked` that
events are under way only inside a transaction; with them `NoLeak` is inductive.

`HoldsAreCounted`, `TypeCorrect` and `LedgerIsExact` need the whole life of a
generation, in two parts. About sessions: `Counted` (whoever closes is counted, and a transaction is cancelled
only by a close that waits for its end, so its session is `Doomed`), `Bounded`
(a start has paid for its own generation and for one failure of each device, so
generations do not run out: the bound of `Generations` is not an assumption but
follows), `Blank` (a session that is not open, or new, holds nothing down) and
`Future` (nothing is known of generations to come). About each device its
`Account`, at every point of a call: `Staged` (what is left to press or
release, and that it has references), `Kept` (the hold that a call relies on is
not changed behind its back), `Due` (the event under way is one that the
references called for), `Balanced` (references, less those acquired for a hold
that is not recorded yet, plus those a recorded hold has given up, are the
number of recorded holds that use the input) and `Matched` (an input with
references is down in the current session, and another one is not). A device
whose failure is about to end the session is not `Clean` and has no account any
more; its close starts a generation in which all are clean again. Between
transactions nothing is acquired or given up, and the account is `LedgerExact`.
While a chord is pressed it is held by nobody, so that there is room for one
more reference to each of its keys (`RoomForOne`), which bounds the references
by the number of chords in `TypeCorrect`.
`MovesRest` says that a step of one device leaves the account of the others
alone, which reduces each action to its own device.

`Matched` reads "down, or `raised` by a text": nothing is assumed of what texts
type. `Applied` is what a step knows about an event that reached the compositor.
`HoldsAreCounted` is the part of `LedgerExact` that does not speak of the
compositor.

**AgentViews.** `Gated` (the action gate), `Reading` (who has a capture's lock
works on it) and `Numbered` (a view is in the hands of one call) carry `Owned`.
`Responses` says that a content that is open is the server's or a close's and,
on its way, has its bytes: so nothing but it is sent, and after a `Close`
nothing. `Sweeping` says that after the sweep nobody works in the session and
its books stay empty, which with `Extracts` and `Cropped` gives `NothingLeft`.
One lemma per part of the invariant and kind of step (a call's, a close's,
others') has a step per action that can disturb it; the same for the parts of
`TypeOK`.

**PortalHandshake, ScreenCast.** Of each attempt alone, since attempts do not
touch each other: `MadeOf` (what was created is the portal's session and not
known to be closed), `MailOf` (a signal on the way speaks of the portal's
session, or says that there is none), `AskedOf` and `FailedOf` (a failed attempt
still knows a path to ask for, or the portal made nothing), `BlankOf` (no
answer comes before its request). They give `SessionsSettled`; `Reads` lists what
reading one signal comes to, so that each is one step of a proof. Of the
manager: `Exclusive` (who opens or closes has the operation), `Fresh` (nobody else
has the attempt of a `Start`), `Streams` (at which points a stream lives) and
`Locked` (who is in the native stream has the source's lock) give `NativeLive`;
`InHand` (what has something to give back is in use or with the holder of the
operation) and `Wired` (a descriptor and the portal's session are those of an
attempt under way) give `NothingLeft`.

**Only model-checked:** all liveness (`CleanupTerminates`, `RequestsReturn`,
`WaitersReturn`, `EveryoneReturns`, `CallsReturn`, `CloseReturns`), which needs
fairness and `ENABLED`. Every other invariant, action property and refinement
that a run of section 3 expects to hold is a theorem, and so is the type
invariant of every module that states one, those of `AgentViews` and
`PortalInput` included, which no run lists. `PortalHandshake` and `ScreenCast`
state none: what the proofs need of the ranges of their variables is part of
their inductive invariants.

## 5. What is not modelled

* Contents: policies, scoring of targets, sanitising, images and pixels, the text
  of errors. A choice stands for them wherever control depends on the result.
* Encodings: guardian frames, D-Bus messages, the Wayland wire format.
* The X server, the portal and the compositor beyond what is needed to state what
  is held, open or sent.
* Pointer positions and smooth moves; touch; scrolling.
* The recorder: its state is one list of events under one lock, and what a flow
  may contain is a matter of validating data. Its one interleaving with the
  rest of a session is in the list of hazards.
* The flow planner, accessibility and window adapters and Wayland's output
  discovery: requests that one goroutine makes in order and that keep nothing.
* C code, Windows and macOS, test and release tooling (section 1, last rows):
  single calls of the platform, or programs outside the library.

## 6. Plan

What would add most next, in this order:

1. A run of its own for the text whose failed release neither taints the session
   nor keeps its claim, or a driver that reports it, as the one for clicks does.
2. `Recorder`: reservation, replacement and detachment of events against the
   actions, observations and `Close` of the session.
3. The C layer's key and button ownership, to follow a failed native release.
4. `MoveSmooth` and the scroll of the X11 backend and of the portal.
