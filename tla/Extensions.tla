---------------------------- MODULE Extensions ----------------------------
(***************************************************************************)
(* Extensions in one run: the host that loads them, and the starters that  *)
(* join chats to agents: the sockets of Slack and Discord, the polling of  *)
(* Telegram, and the replies that each of the three streams or sends; and  *)
(* beside them the other surface on which a person meets the daemon, the   *)
(* inbox on a terminal.  They share no state; one runs in a behaviour, the *)
(* others stay as they began.                                              *)
(***************************************************************************)
EXTENDS SlackSocket

CONSTANTS Exts, Callers, Threshold, MaxLoads,
          Sessions, SessionEvents, Connects,
          Updates, Loads,
          Pieces, Turns, Messages, Waiting, Private,
          BridgeThreads, JobThreads, BridgeTurns, BridgePieces,
          StreamTexts, StreamCalls, ChunkOf, ChunkCap,
          MaxDecisions, InitialDecisions, Matching, VoteKeys, MaxKeys, MaxReplies

VARIABLES
    part,
    disk, row, loaded, crashed, current, revoked, subsOf, onBus, tools, byName, triggers,
    running, failures, op, loads, overlap, botched,
    closing, gateway, heartbeat, awaitingAck, sessionId, lastSeq, resuming, dueOpen,
    connects, sessions, live, log, conn, handled,
    poll, offset, asked, onDisk, arrived, confirmed, registered, emitted, skipped, unsaved,
    route, accumulated, partial, lastPushed, ticking, explicitSend, stream, session,
    calls, messages, turn, inTurn, verdict, reply, raced, stuck,
    routeOf, accumulator, actorOf, explicitIn, sends, inBridge, begun, inbound, said, outcome,
    slackStream, posted, suspended, throttled, made, ended, final, grew, unopened, tailLost,
    inbox, screen, keys, replies, cast

Kinds == {"works", "throws"}
MCToolsOf == [x \in Exts |-> {"t"}]
MCTexts == {<<1>>, <<1, 2>>, <<1, 2, 3>>, <<4, 2>>, <<1, 2, 3, 4, 5>>}

Host == INSTANCE ExtensionHost WITH ToolsOf <- MCToolsOf
Discord == INSTANCE DiscordGateway
Telegram == INSTANCE TelegramPoll WITH loads <- registered
Reply == INSTANCE ReplyStream
Bridge == INSTANCE DiscordBridge WITH running <- inBridge
Slack == INSTANCE SlackStream
Tui == INSTANCE InboxTui

ASSUME PartsAssumption ==
       /\ Host!HostAssumption /\ Discord!DiscordAssumption /\ Telegram!TelegramAssumption
       /\ Reply!StreamAssumption /\ Bridge!BridgeAssumption /\ Slack!SlackStreamAssumption
       /\ Tui!InboxAssumption

hostVars == <<disk, row, loaded, crashed, current, revoked, subsOf, onBus, tools, byName,
              triggers, running, failures, op, loads, overlap, botched>>
discordVars == <<closing, gateway, heartbeat, awaitingAck, sessionId, lastSeq, resuming,
                 dueOpen, connects, sessions, live, log, conn, handled>>
telegramVars == <<poll, offset, asked, onDisk, arrived, confirmed, registered, emitted, skipped, unsaved>>
replyVars == <<route, accumulated, partial, lastPushed, ticking, explicitSend, stream, session,
               calls, messages, turn, inTurn, verdict, reply, raced, stuck>>
bridgeVars == <<routeOf, accumulator, actorOf, explicitIn, sends, inBridge, begun, inbound,
                said, outcome>>
streamVars == <<slackStream, posted, suspended, throttled, made, ended, final, grew, unopened,
                tailLost>>
tuiVars == <<inbox, screen, keys, replies, cast>>

ExtensionInit ==
    /\ part \in {"host", "slack", "discord", "telegram", "reply", "bridge", "stream", "inbox"}
    /\ Init /\ Host!Init /\ Discord!Init /\ Telegram!Init /\ Reply!Init /\ Bridge!Init
    /\ Slack!Init /\ Tui!Init
    /\ part # "host" => disk = [x \in Exts |-> "works"]

SlackStep ==
    /\ part = "slack" /\ Next
    /\ UNCHANGED <<part, hostVars, discordVars, telegramVars, replyVars, bridgeVars, streamVars,
                   tuiVars>>

HostStep ==
    /\ part = "host" /\ Host!Next
    /\ UNCHANGED <<part, slackVars, discordVars, telegramVars, replyVars, bridgeVars, streamVars,
                   tuiVars>>

DiscordStep ==
    /\ part = "discord" /\ Discord!Next
    /\ UNCHANGED <<part, slackVars, hostVars, telegramVars, replyVars, bridgeVars, streamVars,
                   tuiVars>>

TelegramStep ==
    /\ part = "telegram" /\ Telegram!Next
    /\ UNCHANGED <<part, slackVars, hostVars, discordVars, replyVars, bridgeVars, streamVars,
                   tuiVars>>

ReplyStep ==
    /\ part = "reply" /\ Reply!Next
    /\ UNCHANGED <<part, slackVars, hostVars, discordVars, telegramVars, bridgeVars, streamVars,
                   tuiVars>>

BridgeStep ==
    /\ part = "bridge" /\ Bridge!Next
    /\ UNCHANGED <<part, slackVars, hostVars, discordVars, telegramVars, replyVars, streamVars,
                   tuiVars>>

StreamStep ==
    /\ part = "stream" /\ Slack!Next
    /\ UNCHANGED <<part, slackVars, hostVars, discordVars, telegramVars, replyVars, bridgeVars,
                   tuiVars>>

InboxStep ==
    /\ part = "inbox" /\ Tui!Next
    /\ UNCHANGED <<part, slackVars, hostVars, discordVars, telegramVars, replyVars, bridgeVars,
                   streamVars>>

ExtensionNext ==
    \/ SlackStep
    \/ HostStep
    \/ DiscordStep
    \/ TelegramStep
    \/ ReplyStep
    \/ BridgeStep
    \/ StreamStep
    \/ InboxStep

extensionVars == <<part, slackVars, hostVars, discordVars, telegramVars, replyVars, bridgeVars,
                   streamVars, tuiVars>>
ExtensionSpec == ExtensionInit /\ [][ExtensionNext]_extensionVars

\* The host's callers are slots, told apart by nothing.
Symmetry == Permutations(Callers)

----------------------------------------------------------------------------
(* The index of tools and the lists of the extensions agree, whatever is in *)
(* flight; between operations an extension is in the map with all it        *)
(* registered, or out of it with nothing left, unless a stop() threw out of *)
(* its last purge: then its tools and triggers are left (ExtensionHost).    *)
RegistriesAreWhole ==
    part = "host" => Host!TypeOK /\ Host!RegistriesAgree /\ Host!LoadIsTransactional

(* Until it is unloaded or disabled, an adapter has a connection or one is  *)
(* due (SlackSocket, DiscordGateway).                                       *)
SocketsRecover ==
    /\ part = "slack" => TypeOK /\ NeverStranded
    /\ part = "discord" => Discord!TypeOK /\ Discord!NeverStranded

(* What comes in is neither dropped nor handled twice, as far as the        *)
(* adapter's memory and disk reach (SlackSocket, DiscordGateway,            *)
(* TelegramPoll).  Handled means given to the subscribers, whose errors     *)
(* Discord swallows; a Telegram update whose own handling throws is tried   *)
(* once and skipped for good.                                               *)
InboundOnce ==
    /\ part = "slack" => EmittedOnce /\ AckedIsEmitted
    /\ part = "discord" => Discord!SessionInOrder
    /\ part = "telegram" =>
        Telegram!TypeOK /\ Telegram!ForgottenWasHandled /\ Telegram!RepeatedOnlyIfUnsaved

(* Replies arrive whole and with their own turn's text, and nothing of a    *)
(* stream stays behind (ReplyStream, DiscordBridge, SlackStream).           *)
RepliesAreWhole ==
    /\ part = "reply" => Reply!TypeOK /\ Reply!RepliesLand /\ Reply!NothingLingers
    /\ part = "bridge" => Bridge!TypeOK /\ Bridge!TurnsDoNotMix
    /\ part = "stream" => Slack!TypeOK /\ Slack!ReplyIsWhole

(* Once no answer is outstanding the inbox shows the replies to the row     *)
(* that is selected, whatever keys came in between (InboxTui).              *)
InboxIsShown == part = "inbox" => Tui!TypeOK /\ Tui!PreviewCatchesUp
============================================================================
