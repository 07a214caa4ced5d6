# OLL-E in TLA+

OLL-E is a daemon that runs agents.  People reach it from a terminal and from
chats (Slack, Discord, Telegram); agents call tools, ask people for decisions,
keep memories and wake each other on schedules; several daemons ("hosts",
"cells") form a team over a mesh, exchange the events of their buses, and split
work among themselves without a leader.  This directory models the parts whose
correctness depends on the order in which things happen, checks them with TLC,
and proves with TLAPS that most of their safety properties hold for every value
of the constants; section 4 lists the few that are only model-checked.

Paths are relative to the repository root, the directory `src/` of the
verification workspace; the implementation is below `src/src/` there.

## 1. Inventory

| Component | State | Operations | Hard behaviour | What makes it correct | Module |
|---|---|---|---|---|---|
| Hybrid logical clock (`id/hlc.ts`) | `l`, `c`; not saved | `now`, `recv`, `compareStamp` | physical clocks differ or step back | a stamp exceeds whatever its process had seen | `HLC` |
| Claim arbitration (`scheduler/claims.ts`) | open windows, won keys, `team_claims` | `registerIntent`, `decideWindow`, `handleClaimEvent` | leaderless; late claims; restarts | one owner, the lowest claim; duplicates noticed | `ClaimWindow` |
| Scheduler (`scheduler/scheduler.ts`) | slots, `task_runs`, `claims` | `register`, `dispatch`, `runTask`, `recoverLost` | reentrant drain, windows that outlive a reload, crash | cap respected, nothing stranded, one verdict | `Scheduler` |
| Cron (`schedule/*.ts`, `tools/schedule.ts`) | rows, timers | schedule, cancel, fire, load | crash between a row and its event | timers follow rows, a minute fires once | `Cron` |
| Daemon bring-up (`daemon/daemon.ts`, `llm/router.ts`) | loop, router, bouncer, keys | boot, probe, key and model events, shutdown | keys arrive while a probe is awaited | an input always meets a loop or the bouncer | `Bringup` |
| Chat health (`daemon/chat-health.ts`) | failures per thread | error, turn end | a sliding window | an outage pages once | `ChatHealth` |
| Chat loop (`agent/chat.ts`, `agent/runtime.ts`) | history, pending and folded input, worker | input, turn, cancel, eviction | awaits between any two steps | no input lost, well-formed history, recorded spend | `AgentLoop` |
| Harness as a brain (`llm/cli-brain/*`, `mcp/*`) | session of a thread, process, tool call | turn, cancel, error, restart | the harness has a memory of its own | a turn sees its whole thread; calls are audited | `CliTurn` |
| Permissions and delegation (`permissions/*`, `agent/manager.ts`, `inbox/approval.ts`) | scopes, parents, snapshots | check, spawn, kill, ask, grant | the grant comes long after the ask | nothing is gained but by a grant of someone who holds it | `Permissions`, `Delegation` |
| Decision inbox (`inbox/inbox.ts`) and its mail | decisions, replies, marks, wake timer | propose, respond, reply, sweep, wake | answers race deadlines, turns and restarts | an answer reaches the thread that asked, once | `DecisionMail` |
| Memories (`memory/*.ts`) | rows, tombstones, names | tools; events folded on each host | order and repetition differ per host; four finders | same events, same memories; finders agree | `MemoryProjection`, `MemoryTools` |
| Catchup and bridge (`mesh/catchup.ts`, `mesh/bridge.ts`) | watermarks, catchup in flight | request, serve, chunk, live, dial | live events overtake pages; two sockets; cuts | nothing missed, nothing twice | `Catchup` |
| Teams (`tools/team.ts`, `mesh/bridge.ts`, `daemon/daemon.ts`) | rows, secrets, links, invites | create, invite, join, leave, restart | rows, file and bridge change apart | an invite admits one; members can speak | `TeamMesh` |
| Peer link (`mesh/peer.ts`) | socket, timers, queue | connect, send, heartbeat, close | a callback that sends inside `open` | hello first, in order, always redialed | `PeerLink` |
| IPC (`ipc/*.ts`) | requests, subscriptions | call, tail, cancel, close | answers race the end of the connection | one answer each, nothing leaks | `IpcSession` |
| VM channel (`vm/channel.ts`) | calls, streams, producers | call, stream, cancel, close | answers race cancel and close | everyone is told | `VmChannel` |
| Extension host (`extensions/*.ts`) | registries, revocations | load, unload, reload, crash | two callers at once; half a load | a failed load leaves nothing | `ExtensionHost` |
| Slack starter | sockets by generation, seen ids, streams | dial, refresh, events, reply | sockets overlap; deliveries repeat; rate limits | never stranded, each event once, whole replies | `SlackSocket`, `SlackStream` |
| Discord starters | session, sequence, routes | hello, resume, dispatch, reply | resumes; turns of several threads | in order within a session; turns do not mix | `DiscordGateway`, `DiscordBridge` |
| Telegram starters | offset, stream session | poll, stream, finalize | offset saved late; calls in flight at the end | forgotten means handled; replies land | `TelegramPoll`, `ReplyStream` |
| Inbox on the terminal (`cli/inbox-tui.ts`) | rows, selection, details, prompt | keys, answers to its requests | answers arrive after the selection moved | what is selected is what is shown | `InboxTui` |
| LLM APIs, other starters, other CLI, observability | (mostly stateless) | translation, rendering | external services | | not modelled |

They meet on the bus (publish and subscribe, synchronous within a process), in
the SQLite store, and over the mesh.  The extension host gives extensions an API
over the bus, the scheduler and the tools; the starters turn chats into
`channel.message` events and turn ends into replies; the chat loop takes
`chat.input` events, whoever publishes them.

## 2. The models

JavaScript runs one callback at a time, so an action is what happens between
two awaits (or timers, or socket events): a whole synchronous handler with all
it calls.  Where a handler publishes on the bus, the subscribers it reaches
synchronously are part of the action.  A comment of one line above a definition
names the operation of the code it stands for; definitions marked "Mutant" are
plausible bugs that a property has to notice.

### Hosts of a team

**`ClaimWindow`** (with `HLC`).  `clock`, `pending`, `wonLocally`, `memo` are what the
process of a host keeps in memory; `row` is its `team_claims` table; `hlc` is the
stamp each claim event carries for ever.  A claim is named by host and process
(`boot`), because a process claims an event once.  `RegisterIntent` publishes the
claim, and the host's own subscription inserts the intent row before `publish`
returns; `DeliverClaim` is `handleClaimEvent` with the split-brain check and the
alarm it publishes; `Win` and `Lose` are `decideWindow`; `Restart` wipes the memory
part.  The timer may fire at any moment, so every delay of the network is one in
which the window closes before the claim comes.  `TaskOwnership` forgets rows,
clocks and messages: hosts contend, run, yield and get flagged, and the last two
need a rival ahead.  `ClaimWindowRefinement` maps a host's phase to the status of
its own row.

**`MemoryProjection`**.  The state of a host is the row, the tombstone and the cached
display name; an event names itself what it wrote.  `ApplyWrote` and `ApplyForgotten`
may be taken for any event at any time and repeatedly: this is every order and
duplication that catchup, live delivery and replay can make.

**`Catchup`**.  One direction between two hosts: the client's own socket carries
requests, chunks and live events, the socket of the server's link live events
only.  `mark` is the watermark in memory, `saved` the one in `team_peers`, `request` the
catchup in flight; cuts and restarts lose what sockets, queues and memory held.
Ids are published in any order: within a millisecond they need not increase
(`id/ulid.ts:53-63`, see section 3).

**`TeamMesh`**.  Per host: the `teams` row, the members row, the secret on disk and in
the bridge, the peer rows and the links.  `team_join` and `team_leave` are taken apart
where they await (`HelloWithInvite`, `JoinSecret`, `JoinRows`; `Leave`, `LeaveUnlinks`), so
that another host, a crash or a lost handshake comes in between; an invite is
redeemed in the listener's store before its welcome is sent.

### One host

**`Scheduler`**.  A slot is an object that survives its unregistration, because
handlers and queued events refer to it; slots are told apart by generation.
`Succeed` and `Fail` are the two ends of `runTask`, each with the row update, the
outcome event, the release and the drain that happen in the same turn of the
event loop; the table may refuse the row update, which is logged and no more, and the
histories `unended` and `leftover` name the rows that stay at running for that reason; `WindowWon`, `WindowLost`, `WindowVoid` are the ends of an arbitration.
`Crash` keeps the tables only, and `RecoverLost` is the boot.

**`Cron`**.  Rows of the triggers table, croner's timers, and the map between them.
A tool writes a row and then announces it; the daemon may die in between
(`ScheduleThenCrash`).

**`Bringup`**.  The detection ladder of the boot, with the probes of the harnesses as
its only waits; the event handlers for keys and models, tearing down and bringing
up again; `bouncing` is the subscriber that answers while there is no loop.
`delegated` counts the turns of a harness that run, those of a loop that was torn down
included, because `stop` does not abort them: `CliAuthLost`, `DelegatedTurnFails` and
`RootTurnEnds` are their ends, whichever loop is up by then.

**`ChatHealth`**.  The failures kept per thread, each an age in ticks and a place
among the errors since the thread's last turn end: a set, because the code reads
no more of its list than the length.  `MaxStrikes` bounds the errors of an outage for TLC
and is any number in the proofs.

### The agents of a host

**`AgentLoop`**.  `thread[t]` is the `Thread` object with the locals of its running turn.
An input starts a worker or joins the queue of one (`Arrive`); the worker takes
inputs one by one (`TakeNext`), each is a turn of up to `MaxRounds` calls of the model
(`Answer`, `CallTool`, `CallFails`, `ToolReturns`), and input that asks for it is folded in
between rounds.  A turn works on a copy of the history that replaces it on success
(`EndTurn`) and is dropped on failure (`FailTurn`).  Promises make gaps that matter:
between `runAgent` returning and `runTurn` going on, and between the drain loop's
last look at the queue and the callback that clears the worker.

**`CliTurn`**.  The harness keeps sessions; `harness[s]` is what it has in one.  A turn
resumes a session with nothing but the prompt, or opens one with the transcript
in front (`Context`).  A killed process may still print (`lingering`, `stray`), a tool
call may outlive its turn, and a restart reads the snapshot back without the
session.

**`Permissions`** holds the pure operators: `CheckTool`, `NarrowsScope`, `MergeGrant`.
**`Delegation`** puts them to work: turns are checked against the scope as it was when
they began, denied calls ask up the chain of parents, and the executor turns an
approved ask into a wider scope, if the scope of the agent by whose authority it was
approved has it: the ancestor that approved on the way up, or the human, who owns
the inbox.  An ask is a payload: one that an agent writes with `mail_propose` names
any agent, tool and tier (`Payloads`), and `mail_respond` lets any agent whose turn
may call it vote on any decision, its own included, and put another payload in place.

**`DecisionMail`**.  One proposer.  A resolution joins the debounced wake of the mailbox
thread and is shown to each thread once, after that thread's own mark `hwm`; time
is in milliseconds because the mark's boundaries are.

**`MemoryTools`**.  Rows, membership and parents; the four ways to find a memory
(`Readable`, `SearchHits`, `LineageHits`, `Principles`) as sets.

### Connections

**`PeerLink`**: the socket of one link, its two timers and its queue.  `Open` is the open
handler with the status callback in it.  **`IpcSession`**: client, the two directions of
the stream, and the dispatcher; a method is a kind of answer (at once, later,
refused, a stream), and `services` says which extras the daemon was built with.
**`VmChannel`**: two ends that call and serve each other.

### Extensions and people

**`ExtensionHost`**: callers in the middle of a load or unload, and the registries.  A purge is
two steps, with the await of the stops between them; a `stop()` that throws ends it
before the await (`StopThrows`), and `botched` names the extensions it left half purged.
`list` is what `startTriggers` took before it awaited, of which some may have started.
**`SlackSocket`**, **`DiscordGateway`**, **`TelegramPoll`**: what comes in; `skipped` are the updates
of Telegram whose handling threw, which are behind the offset and not asked for again.
**`SlackStream`**, **`DiscordBridge`**, **`ReplyStream`**: what goes out; the service may be slow, refuse,
or accept a call whose stream has ended.  In `ReplyStream` a message that comes in during a
turn is folded into it and starts the stream once more, a push does not wait for
the one before, and `Private` says which of the two ways of streaming the chat has; the
histories `raced` and `stuck` name the sessions of which less can be promised.  In
`SlackStream` a text is a sequence of pieces, of which a message takes `ChunkOf` and a text
at most `ChunkCap` messages: a longer one is cut off
(`starters/templates/slack.ts:435-450`), and nothing is promised of it, nor of a native
stream that was updated before it was started (`unopened`) or whose last piece was
refused (`tailLost`).  **`InboxTui`**: one person at the keys, with
requests in flight; a list is what it says of each decision, and the selection a
position among the shown ones, youngest first.

### Composites

Components that share no state are put into one module and one run: `Daemon`,
`AgentSide`, `Federation`, `Connections`, `Extensions`.  A variable `part`, chosen in the
initial state, says which of them the behaviour is about; only its actions are
taken, the others stay as they began, so that the states add up instead of
multiplying, and an invariant of a part is one of the whole.  The composite names
what a reader wants to know of the group and says which properties of which
parts it is made of.  Fairness is stated per part; what it asks of a part that
is not taken is never enabled.  For the proofs this has a simple reading: the
steps of the composite are, on the variables of a part, steps of the part or
stutters, so that the specification of each part holds of the composite.

## 3. Runs

| Run | Question | Bounds |
|---|---|---|
| `Arbitration` | Without restarts, does the lowest claim own the task, is a duplicate noticed, does the protocol implement `TaskOwnership`, and does it get there? | 3 hosts, one process each, one physical time |
| `ArbitrationRestart` | Do the local guarantees survive a restart of every host? | 2 hosts, 2 processes each |
| `Daemon` | Slots, standing jobs, bring-up, watchdog: see the comments of its properties | 4 events, cap 2, 3 registrations; 2 agents, 2 schedules of 2 minutes; 3 calls about keys, 2 about models, 2 inputs; 2 threads, threshold 2, 5 errors in an outage |
| `Agents` | Chat loop, harness, delegation, decision mail, memories | 2 threads, 3 inputs, 2 rounds, budget 2; 1 child, 3 tools of 2 tiers, payloads for a grant that names another agent and a lower tier, and for something else; 2 decisions, 2 threads, 1 restart; 1 harness thread, 3 inputs, 2 sessions, 1 crash; 2 memories, 1 team |
| `Federation` | Memories, catchup and membership across hosts | 2 hosts, 7 memory events of 2 agents; 3 events, 1 of them relayed, pages of 1, 2 cuts; 3 hosts, 2 invites, 1 leave, 1 restart, 1 lost handshake |
| `Connections` | Peer link, IPC session, VM channel | 3 envelopes, queue of 2; 3 requests, 2 events; 2 and 1 calls, 1 item; one end streams |
| `Extensions` | Extension host, the three chats both ways, the inbox | 2 extensions that share a tool name, 2 interchangeable callers (symmetry), 2 loads; 2 Slack events, 3 dials, memory of 1 id; 2 Discord sessions of 3 events; 3 updates, 3 loads; 3 Discord turns of 2 pieces on 2 threads; 5 calls with 5 texts on Slack; on Telegram 2 turns of 2 pieces, 2 messages in a private chat, a call with at most 1 other in flight when it is made; 2 decisions, 3 keys, 1 reply |
| `CrashLosesTask` | (violated) Does somebody run a task that everybody claimed? | 2 hosts, 2 processes each |
| `ReloadBreaksCap` | (violated) Does a slot stay within its cap? | 3 events, cap 1, 2 registrations |
| `CatchupGap` | (violated) Has a client, once idle, what was stored before it dialed? | 2 events, pages of 1, 1 cut |
| `LeaverCanRejoin` | (violated) Can a host that left a team join it again? | 3 hosts, 2 invites, 1 leave, 1 restart |
| `RepliesAreSeen` | (violated) Is a reply to a resolved decision on the screen before it counts as read? | 2 decisions, 2 keys, 1 reply |

Why these bounds are enough.  A race between claims needs two hosts, a chain (a
host beaten by one it beat another with) three; one physical time makes all
stamps ties of the millisecond, which is the hard case, and the theorems cover
the rest.  The slot needs a full cap and two waiting events to have an order.
The seven memory events have a write in the millisecond of the forget before it,
two rows that compete for one name, and an update that drops the role of a name.  Three events in pages of one are three
pages, the last of which is full.  Two threads and a budget of two rounds let one
thread fill the budget while the other still spends.  A child, the root and the
human are a chain in which a grant is answered by the human or by an ancestor;
the tools include two of one tier, because a grant lifts the tier.  A memory of
one id with two events forgets; three dials overlap two sockets and lose one.
Three updates and three loads repeat a repetition.  One caller more than one, and
one tool name that two extensions want, is what the registries have to survive.
Three hosts and two invites let a newcomer be invited by a newcomer.
Two calls of a chat in flight are a race, two turns a stream that ends while the
next begins, and two chunks of two pieces cut a text of five off.  A turn that ends
beside two calls in flight is beyond the run; `RepliesComeWhole` covers it, for any
`Waiting`.

A pass means that TLC enumerated all reachable states of the instance.  Deadlock
is not checked where the system may stop: all events handled, all claims decided,
a link closed.

### Fairness

* `Arbitration`: due timers fire and published claims arrive.  A partition is a
  delivery that is late, for ever only if a host is down.
* `Daemon` (scheduler): handlers return or throw, windows close, a stopped daemon
  boots.
* `Agents` (loop): calls of the model and of tools end, and the event loop goes on.
* `Federation` (catchup): sockets deliver what they carry and links are dialed
  again, which `PeerLink` is about; failures are finitely many.  (mesh): a link that is
  kept connects while the other side accepts it, and a farewell on its way
  arrives.
* `Connections` (link): a due reconnect makes a socket, a closing socket closes.  `Open`
  is strongly fair: a peer that accepts does so again and again while the link
  keeps dialing, though any one dial may fail.  (session): frames are read, a close
  is seen, and a handler that awaits something returns.

No run assumes that an event is published, a key pressed, a task reloaded, or a
host started.

### What the violated properties show

* `CrashLosesTask`: the intent row of a process that died takes part in later
  decisions; it is the lowest, and no living process is its owner.
* `ReloadBreaksCap`: a window opened under a slot that was replaced by a reload
  is won, and its handler runs in the new slot, uncounted.
* `CatchupGap`: a live event raises the watermark over a gap, and the next catchup
  starts above it.  In the trace the missing event waited in the queue of a server
  that restarted; a catchup that is cut before it comes to the gap is another way.
* `LeaverCanRejoin`: `team_leave` deletes the members and peers but keeps the `teams` row,
  and `team_join` refuses whoever has one, though the tool's description says that
  one "can rejoin with a new invite".
* `RepliesAreSeen`: fetching the details of a decision marks its replies read; the
  list that is fetched next leaves out a resolved decision without unread
  replies; the screen is painted only afterwards.

### Refuted statements without a run

Some sentences of comments and docs are stated in the modules as properties that
TLC refutes; each is a definition that can be added to a cfg of its module.

| Definition | What happens |
|---|---|
| `AgentLoop!NoWorkerNoInput` | an input that a microtask publishes after the drain loop's last look waits without a worker until the next one comes; `EveryInputIsTaken` says what does hold |
| `AgentLoop!FoldedInputsStay` | folded input is pushed to a copy of the history, which a failing turn drops (`agent/chat.ts:764-768` says otherwise) |
| `CliTurn!DeadSessionsAreDropped` | errors are classified by patterns anywhere in the output, so that a session the harness no longer has may be taken for a passing failure and retried (`agent/chat.ts:632-635`) |
| `CliTurn!NoStrayText` | a killed process prints on until it dies, and what it prints is published after its turn has ended, possibly during the next |
| `DecisionMail!NothingIsMissed` | a resolution in the millisecond of a rendering, after it, is below the next mark (`agent/chat.ts:1180-1184`) |
| `MemoryTools!PromotedStays` | an update of a promoted memory that names no scope makes it private again |
| `MemoryTools!TeamWritesByMembers` | a write to a team is not checked against its members |
| `Bringup!DroppedKeyIsFound` | a key stored while the boot awaits a probe is announced before anyone listens and after the ladder has passed it (`daemon/daemon.ts:853-855`) |
| `ChatHealth!WindowReopens` | only an ended turn lets a thread page again, not the window (`daemon/chat-health.ts:11-13`) |
| `ExtensionHost!StaleApisThrow` | of two overlapping loads of one extension one revocation record is overwritten (`extensions/runtime.ts:165`) |
| `DiscordGateway!UnloadIsFinal` | a reconnect that is due still dials after the unload (`starters/templates/discord.ts:54`) |
| `ReplyStream!PresenceEnds` | a typing indicator survives its stream (`starters/templates/telegram.ts:443`) |
| `VmChannel!SignalFollowsClose` | the signal of a plain request is not aborted by a close (`vm/channel.ts:45`) |
| `TeamMesh!FullyConnected` | two hosts that joined through one inviter never learn of each other (`docs/design/ARCHITECTURE.md:503`) |
| `InboxTui!VoteGoesWhereAsked` | a vote goes to the row selected when the prompt is committed; a list fetched meanwhile may have moved another row there |

### Met while modelling

Disagreements that a single sequential execution already shows:

* `memory/projector.ts:158`: an update that drops `role = display-name` does not
  refresh the cached name (`NameIsLatest` is about the agents whose memories have
  kept their role on the host, `KeepsRoles`).
* `memory/projector.ts:112`: `created_at` depends on which write arrived first.
* `scheduler/scheduler.ts:149-164`: the second `claims` row of an execution (its
  outcome) is refused by the key, so the row stays at `winner`.
* `scheduler/scheduler.ts:195-204`: the update that ends a run may be refused, which is
  only logged; the outcome is published all the same, and the next boot finds a running
  row and announces the completed run lost.  `SlotsAreKept` and `OneVerdict` allow
  that and no other second verdict.
* `daemon/daemon.ts:898`: the handler asks only whether there is a loop; a harness turn
  of a loop that was torn down for an API key (`agent/chat.ts:375-383` lets it run on)
  makes the status say needs-login while the API loop is up, until the next turn of
  the root ends.
* `scheduler/claims.ts:162`: a window without rows calls neither callback, so the
  slot's place is not given back (`SlotAccounting` counts it as leaked).
* `daemon/daemon.ts:127-128`: lost runs are announced before anything subscribes.
* `mesh/bridge.ts:295`: the end of a catchup may lower a watermark that live events
  have raised (it refetches, and the bus drops the repetition).
* `mesh/catchup.ts:155`: an event that reaches the server from a third host with an
  id below the client's watermark is not served to that client.
* `id/ulid.ts:53-63`: an id exceeds the one before it of the same millisecond only if no
  id of another millisecond was made between the two; the bus makes its ids at the
  time of its clock (`bus/bus.ts:129`), which may be ahead of the time at which others
  are made, so that an event may be published below a watermark of its own source.
* `mesh/bridge.ts:211`: heartbeats go to the listener of the peer, where they refresh
  no link, so a healthy idle link goes stale and is dialed again.
* `mesh/bridge.ts`: a peer row marked "left" is redialed after a restart; a crash
  between the deletion of the rows and `dropTeam` leaves a secret on disk; an invite is
  spent when its welcome is lost; `dropTeam` does not end a catchup.
* `agent/chat.ts:865`: a denied call asks at a fixed tier; where an ancestor lists it,
  the ask is approved on the spot and then rejected by the gate of the grant.
* `inbox/approval.ts:52`: "never self-approves" is true of the walk only;
  `mail_respond` (`tools/inbox.ts:110-155`) asks no more than its tier, so that an agent
  of the strategic tier may approve, or rewrite and approve, what it has proposed.
* `permissions/grant.ts:95`: the gate is passed at the tier the payload names, not at
  the tool's, so that what was granted is allowed at that tier, and callable only if
  it is the tool's; `permissions/check.ts:66-67`: a child whose scope leaves a field
  out is not restricted by its parent's list of it.
* `agent/chat.ts:574-613`: a turn of a harness is given no timeout, so one that hangs
  ends only when it is cancelled; a resumed turn does not carry the list of
  resolutions.
* `daemon/chat-health.ts:57`: the page is remembered before it is made, so one that
  fails is not made again in that outage.
* `ipc/client.ts:66`: a call made after the client has seen the close never settles;
  `CallsSettle` is about the others (`late`).
* `extensions/runtime.ts:779`: the failure log survives a reload; the second of two
  loads sweeps the staged copy of the first.
* `extensions/runtime.ts:568-570`: a `stop()` that throws does so while the list is mapped,
  before `allSettled` is called: the purge rejects, tools, tasks and triggers stay, and an
  unload leaves the record in the map with its api revoked; a failed load rejects with
  that error and leaves its row as it was.  After too many failures the unload is
  not awaited (`:805`), so that its rejection reaches `daemon/fault-isolation.ts:30`, which
  reports it as another failure of the same extension, over and over if its stop
  goes on throwing.
* `starters/templates/telegram.ts:254`: the offset moves before the update is handled, so that
  one whose handling throws is skipped for good (`InboundOnce` says handled or `skipped`).
* `cli/inbox-tui.ts:231`: while the daemon answers `inbox.get` with errors the screen
  asks again at every paint.

## 4. Theorems

Every invariant has its inductive invariant, which its proof module states as a
conjunction of named parts; `TypeOK` is one of them.  The theorems of a composite
begin with a lemma that its steps are steps of the part (`DaemonRunsCron`,
`ExtensionsRunHost`, ...), after which only the part is looked at, one lemma per
action.  The assumptions are the named ones of the modules, collected in a
composite's `PartsAssumption`, and bound nothing that the runs bound.

**`ClaimWindowProofs`**, for every finite set of hosts (whose ids are ordered numbers),
every number of restarts and every reading of the physical clocks:

* `NowAdvances`, `RecvDominates`, `StampOrder` of `HLC`: the clock goes up, and stamps are
  strictly and totally ordered.
* `TypeCorrect`, and `Invariance`, the inductive invariant.  The property alone is
  not inductive: that a won row is the lowest needs to know that an open window
  has an own intent row, that a won key has an own row that is `won` or flagged,
  that the own row is of this process if there was no other, that every row
  belongs to a published claim, and that every published or received stamp is
  at most the clock of whoever published or received it.  These are its conjuncts.
* `WonRowsAreLowest`, `YieldingIsJustified`, `SplitBrainIsDetected`, and from them
  `LowestClaimOwns`: in a settled mesh without restarts the owner is the
  lowest claim.  Its proof needs that a finite non-empty set of claims has a
  lowest one, which rests on the order lemma and on the stamps being numbers.
* `LateClaimsAreReported`: a second invariant on top of the first, that a row the
  host flagged was announced (`FlaggedIsReported`), because a lower claim that comes
  later finds the row flagged and says nothing more.
* `ClaimsRespectCausality`, the action property: a claim is stamped above what its
  process had received, from the bounds on the clocks.
* `WindowImplementsOwnership`, the refinement of `TaskOwnership`, under `MaxBoot = 1`: a
  process that restarts forgets a window that the abstract host would still
  be contending in, so that the mapping is about hosts that stay up, as the run
  `ArbitrationRestart`, which leaves it out, is about the others.  Each action
  maps to an action or a stutter; a yield needs a rival, which the invariant
  provides, and an alarm a host that won and still has the row (`WinnerRow`).

**`DaemonProofs`**, for every number of events, cap, and number of reloads and crashes:

* `SlotsKept` and `VerdictIsOne`, of the scheduler alone, refused row updates included.  An event is in exactly one
  place (`Placed`: a queue in order, a window, a handler, or settled), which is what
  the accounting adds up over; a process that is down holds nothing (`DownIsEmpty`), and
  what is on the bus agrees with the table (`Verdicts`);
* the same of the whole daemon (`DaemonKeepsSlots`, `DaemonVerdictIsOne`);
* `InputsAreAnswered`, `DefaultModelHonoured` (`BootIInv`): which of router, loop and
  bouncer exist follows from the phase of the bring-up (`BindingsFollowPhase`), also
  while it waits and when turns of loops that are gone end;
* `OutagesPagedOnce` (`HealthIInv`): the failures kept are among the errors since the
  last turn end and include those of the window, however many errors an outage has;
* `JobsFollowRows` (`CronIInv`): rows are keyed, each timer is held by the map, and
  nothing has fired for a minute to come.

**`FederationProofs`**:

* `OneHostPerInvite`, `MembersSpeak` (`MeshIInv`): an invite in use was minted, whoever is
  joining is not in the team yet, an invite has one holder among the pending
  and the admitted (`OneHolder`), and a leaver is no member.
* `EventsHandledOnce`, and the action property `CatchupMissesNothing` (`PagingIInv`), for every
  page size, log and number of cuts.  The latter promises the ids above the mark the
  catchup began with that the server had when the client dialed, or made itself
  since (`Owed`): not the ids at or below the mark, and not an event that a third host
  brought meanwhile.  What was handled was seen, at most one
  request or answer of a catchup is under way (`OneIsOut`), and pages, aboard and
  received, leave no hole behind the cursor (`NothingSkipped`, `PagesContinue`).
* `MemoriesConverge`, `ForgottenStaysForgotten` (`ProjectionIInv`), for every set of memory
  events that are told apart by memory and stamp: row and tombstone are functions
  of the set of applied events (the youngest forget; the youngest write unless
  it is forgotten), whatever the order and the repetitions.
* `MemoriesAgreeEverywhere` adds the cached display name, of the agents whose memories
  have kept their role (`KeepsRoles`, a condition of `NameIsLatest` that is asked of what
  a host has applied so far): without it the names do diverge (section 3,
  `memory/projector.ts:158`), and a memory that drops the role of one agent says nothing
  against the name of another.

**`ConnectionsProofs`**:

* `LinkStaysInOrder` (`LinkIInv`), for every bound of the queue: what is on the wire is in
  order and before what is queued, and an open socket has greeted.
* `RequestsAnsweredOnce` (`SessionIInv`), for any requests and events: a request is in one
  place (`OnePlace`), the server subscribes to the bus for exactly the tails it has
  (`Listeners`), and a tail has no more events than were published (`NoEventTwice`).
* `OneAnswerEach` (`ChannelIInv`) adds the two ends of the channel: an end asks under an
  id once, and whatever waits has a frame, a handler or the report of a close
  ahead (`RequestOK`).

**`ExtensionsProofs`**:

* `AdaptersRecover` and `NothingLostOrRepeated` (`SlackIInv`, `DiscordIInv`, `TelegramIInv`), for any
  number of events, dials, sessions, updates and loads and any memory of ids:
  per event, what is remembered agrees with what was published and acknowledged
  (`Memory`); the session that is resumed is the one whose events were handled, in
  order (`SessionIsFollowed`, `HandledInOrder`); per update, where offset, disk and
  Telegram's own mark stand (`Handled`).
* `ExtensionsLoadWhole` (`HostIInv`), for any extensions, callers and loads: the index and
  the lists agree always; a load belongs to one extension (`LoadsAreOwned`); and an
  extension of which no two operations overlapped is being worked on by one
  caller, or loaded whole, or gone, or left over by a purge that a `stop()` ended
  (`Sequential`, `Resting`).
* `InboxCatchesUp` (`InboxIInv`), for any decisions, keys and replies: every way of
  drawing the screen leaves it sound, and caught up or with a request under way.

**`ReplyProofs`**: `RepliesComeWhole`, for any threads, turns, texts, messages and calls in
flight, from one invariant for each chat:

* `BridgeIInv` (Discord): all that the bridge keeps by thread is of the turn that runs
  there (`OfItsTurn`), turns of different threads, and sends of turns that are over, are
  different turns (`TurnsAreApart`), and a chat's thread has a stored route from its
  first turn on while a standing job's never has one (`Routed`).  `TurnsDoNotMix` is about
  the sends alone and says nothing of what the next send will be made of.
* `StreamIInv` (Slack): what a native stream has put into the channel ends with the last
  text its session knows, and is no more than that as long as each text went on
  from the one before (`SessionShown`), so that a delta completes it; the arithmetic of the chunks
  says when n messages hold all of a text.
* `ReplyIInv` (Telegram): each turn has at most one call that will decide it
  (`VerdictsFollow`); of a session whose calls did not race, at most one update is under
  way while it is in the map and at most one call, its last, afterwards, and
  no message but the one it knows has a cursor (`Unraced`); and a delivered reply is
  out of reach of any call still to return (`ReplyStays`).  `RepliesLand` and
  `NothingLingers` are about calls that have returned, so that neither is inductive
  without what is still under way.

**`AgentLoopProofs`**, for every set of threads, number of inputs, rounds, budget and
retention: `LoopIsSound`, all the invariants of the chat loop.  `LoopIInv` says of each
thread what its own steps need (`Sound`: the phases of turn and worker agree,
rounds handed out are counted, and `HistoriesAreSound`), and of all threads what
a sum or a queue needs:

* a history is in order only together with the inputs that wait, so that
  `Faithful` is about the transcript, the queue and the folded inputs at once: no
  input is in two of them, and what was heard came before what waits;
* every call of a tool in a history is followed by its result, also in the copy that a
  turn works on, except for the one call that a running tool will answer;
* `SpendIsComplete` counts the rounds of running turns one by one (`Outstanding`), and
  `TurnsFit` is the wall: what is recorded, and all that the turns under way may
  still use, exceeds the cap by no more than `MaxRounds` for each thread;
* `KeptAreRetained`: every thread that may be evicted is in the order of completion,
  which is no longer than the limit.

**`AgentSideProofs`**: the same in the composite (`HistoriesSound`, `ThreadsKept`, `SpendKept`), and

* `GatesAreChecks`, `GrantsOnlyAdd`, `ListedChildren`: what the gates of `permissions/` compute,
  for any tiers, tools and scopes;
* `GrantsAreCallable`, and the action property `NobodyGainsUnasked` (`AuthorityIInv`), for any
  children, payloads and voters: whoever is there hangs from the root (`ChainsAreShort`), who
  approves is kept from tools by tiers alone (`ApproversListTiers`), and turns and
  grants are of agents that are there (`ActorsExist`);
* `AnswersComeBack` (`MailIInv`), for any decisions, threads, deadlines and restarts: the marks
  of the threads trail the clock (`MarksAreBehind`), a turn was shown exactly what
  was resolved between its mark and its rendering (`TurnsShowWhatIsNew`), and what
  was shown is behind the mark (`ShownIsMarked`);
* `CliTurnsWhole` (`CliIInv`), for any threads, inputs, sessions, failures, cancels and
  restarts: a thread's history, its copy on disk and its session, unless the
  harness has forgotten it, each hold all its successful turns in order, among
  what failed or was cancelled (`ThreadKept`); the prompt of a running turn is the
  last of the history, and its session, once named, is what the turn was given,
  the prompt and the answer so far (`TurnKept`).  No two threads share a session
  (`SessionsApart`) or a call (`ToolsApart`);
* `MemoriesPrivate` (`MemoryIInv`), for any agents, teams, roles, memories and edits: an
  update keeps owner, author and origin, and the copies made for a child get
  the numbers after the last memory, one each and in the order of the seeds
  (`RanksAreTaken`), so each is of an older one.

Only model-checked:

* liveness (`EventuallyOneOwner`, `EventsSettle`, `EveryInputIsTaken`, `MeshSettles`,
  `CallsSettle`), which is out of the prover's reach, as is ENABLED.

## 5. Not modelled, and why

* Encodings: the HLC counter has four hexadecimal digits when encoded, and the
  models compare stamps, not strings; envelopes, invite codes and IPC lines are
  their content.
* Authentication and the scope check of a single event: an envelope here has been
  verified; in `TeamMesh` one without the secret goes nowhere.
* Redelivery beyond the 10000 ids the bus remembers, and a crash between saving
  a watermark and storing its event.
* Several tasks on one scheduler and several keys in the arbitration: they share
  only the clock, whose readings are arbitrary here.
* In the chat loop: compaction, loaded tool sets, retargeting of threads; an error of
  the ledger itself, before which a turn's spend is already marked recorded
  (`agent/chat.ts:463-465`).
  In the manager: what `AgentManager.retargetThread` does to a thread in use.
* Event filters of tasks; malformed payloads; cron arithmetic; event payloads.
* In `TeamMesh` a host's address does not change; with port 0 it does.
* Tools of the chats that are single requests (reactions, history, files), the
  rendering of their markup, and the other starters: GitHub and web are stateless
  requests, FreshRSS has a small cache, the cron trigger one interval.
* LLM adapters, prices, observability, the chat window and the other commands of
  the CLI: translation, queries or rendering without a protocol of their own.
* The delays of timers.  What matters is who is first, and any order is allowed.

## 6. Plan

1. `EventBus`: nested publishing and the bounded memo, and `Mesh` composing it with
   `Catchup` and `PeerLink`.
2. `Budget`: the threshold events of the ledger.
