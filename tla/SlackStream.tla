---------------------------- MODULE SlackStream ----------------------------
(***************************************************************************)
(* slack_stream and slack_send (starters/templates/slack.ts): a reply that *)
(* grows in one message, by Slack's native streaming, which takes what is  *)
(* new, or by edits, which take the whole.  A caller awaits each call; each *)
(* request to Slack may fail.  A text is the sequence of its pieces.       *)
(***************************************************************************)
EXTENDS Naturals, SequencesExt

CONSTANTS StreamTexts,  \* texts the caller may have so far
          StreamCalls,  \* bound: calls
          ChunkOf,      \* pieces a message holds
          ChunkCap      \* messages a text is split into, at most

StreamPieces == UNION {Range(text) : text \in StreamTexts}

SlackStreamAssumption ==
    /\ StreamCalls \in Nat /\ {ChunkOf, ChunkCap} \subseteq Nat \ {0}
    /\ StreamTexts \subseteq Seq(StreamPieces)

NoStream == [tier |-> "none", ts |-> 0, last |-> <<>>]
NothingPosted == [before |-> <<>>, now |-> <<>>]

VARIABLES
    slackStream, \* the session of the map; its ts is 1 when it has a message
    posted,     \* the session's message, and the text of those before it
    suspended,  \* suspendedUntil is ahead
    throttled,  \* less than EDIT_INTERVAL_MS since the last edit
    made,       \* calls made
    ended,      \* the result of the last call, see TypeOK
    final,      \* the text finalize was given
    \* history
    grew,       \* each text that was streamed natively went on from the last
    unopened,   \* a native session was updated before it was started
    tailLost    \* the last delta was refused

historyVars == <<grew, unopened, tailLost>>
slackStreamVars == <<slackStream, posted, suspended, throttled, made, ended, final, historyVars>>

Texts == StreamTexts \cup {<<>>}

TypeOK ==
    /\ slackStream \in [tier : {"none", "native", "edit"}, ts : 0..1, last : Texts]
    /\ posted \in [before : Seq(StreamPieces), now : Seq(StreamPieces)]
    /\ suspended \in BOOLEAN /\ throttled \in BOOLEAN
    /\ grew \in BOOLEAN /\ unopened \in BOOLEAN /\ tailLost \in BOOLEAN
    /\ made \in 0..StreamCalls /\ final \in Texts
    /\ ended \in {"", "streamed", "sent", "failed", "cancelled"}

Init ==
    /\ slackStream = NoStream /\ posted = NothingPosted /\ suspended = FALSE /\ throttled = FALSE
    /\ made = 0 /\ ended = "" /\ final = <<>>
    /\ grew = TRUE /\ unopened = FALSE /\ tailLost = FALSE

(* getStream: native needs a thread, a recipient and a team. *)
GetStream(canNative) ==
    IF slackStream.tier # "none" THEN slackStream
    ELSE [NoStream EXCEPT !.tier = IF canNative THEN "native" ELSE "edit"]

(* What of a text is new; all of it, when it does not go on from the last.  *)
DeltaOf(s, text) ==
    IF IsPrefix(s.last, text) THEN SubSeq(text, Len(s.last) + 1, Len(text)) ELSE text

(* chunkText: how many messages a text takes, and what the first n say.     *)
Chunks(text) ==
    LET needed == (Len(text) + ChunkOf - 1) \div ChunkOf
    IN  IF needed <= ChunkCap THEN needed ELSE ChunkCap
FirstChunks(text, n) == SubSeq(text, 1, IF n * ChunkOf < Len(text) THEN n * ChunkOf ELSE Len(text))

\* The messages that are there, and new ones after them.
Shown == posted.before \o posted.now
Posting(text) == [before |-> Shown, now |-> text]

Made == made < StreamCalls /\ made' = made + 1

(* Time goes by. *)
Wait ==
    /\ suspended \/ throttled
    /\ suspended' = FALSE /\ throttled' = FALSE
    /\ UNCHANGED <<slackStream, posted, made, ended, final, historyVars>>

(* phase start: native streaming is opened, again if it was, or given up    *)
(* for edits.                                                               *)
Start(canNative, ok) ==
    LET s == GetStream(canNative)
    IN  /\ Made /\ ended = ""
        /\ \/ s.tier = "native" /\ ok /\ posted' = Posting(<<>>) /\ slackStream' = [s EXCEPT !.ts = 1]
           \/ s.tier = "native" /\ ~ok /\ UNCHANGED posted /\ slackStream' = [s EXCEPT !.tier = "edit"]
           \/ s.tier = "edit" /\ UNCHANGED posted /\ slackStream' = s
        /\ UNCHANGED <<suspended, throttled, ended, final, historyVars>>

\* Mutant: what a refused append held counts as shown.
UpdateForgets(canNative, text, ok, limited) ==
    LET s == GetStream(canNative)
    IN  /\ Made /\ ended = "" /\ text # s.last /\ ~suspended
        /\ s.tier = "native" /\ s.ts # 0
        /\ slackStream' = [s EXCEPT !.last = text] /\ suspended' = (~ok /\ limited)
        /\ posted' = IF ok THEN [posted EXCEPT !.now = @ \o DeltaOf(s, text)] ELSE posted
        /\ grew' = (grew /\ IsPrefix(s.last, text))
        /\ UNCHANGED <<throttled, ended, final, unopened, tailLost>>

(* phase update: skipped for a text already there, while suspended, too     *)
(* soon after the last edit, or when nothing is new.  Nothing is marked     *)
(* when Slack refuses.  An edit shows as much as fits a message.            *)
Update(canNative, text, ok, limited) ==
    LET s == GetStream(canNative)
        native == s.tier = "native" /\ s.ts # 0
        idle == text = s.last \/ suspended \/ (~native /\ throttled)
    IN  /\ Made /\ ended = ""
        /\ \/ idle /\ slackStream' = s /\ UNCHANGED <<posted, suspended, throttled, grew, unopened>>
           \/ /\ ~idle /\ ~ok
              /\ slackStream' = s /\ suspended' = limited
              /\ UNCHANGED <<posted, throttled, grew, unopened>>
           \/ /\ ~idle /\ ok /\ native
              /\ posted' = [posted EXCEPT !.now = @ \o DeltaOf(s, text)]
              /\ slackStream' = [s EXCEPT !.last = text] /\ throttled' = TRUE
              /\ grew' = (grew /\ IsPrefix(s.last, text))
              /\ UNCHANGED <<suspended, unopened>>
           \/ /\ ~idle /\ ok /\ ~native
              /\ posted' = [posted EXCEPT !.now = FirstChunks(text, 1)]
              /\ slackStream' = [s EXCEPT !.ts = 1, !.last = text] /\ throttled' = TRUE
              /\ unopened' = (unopened \/ s.tier = "native")
              /\ UNCHANGED <<suspended, grew>>
        /\ UNCHANGED <<ended, final, tailLost>>

(* slack_send, and phase finalize without a session: each chunk is posted,  *)
(* and the first n go through.                                              *)
Send(text, n) ==
    /\ Made /\ ended = "" /\ slackStream = NoStream /\ n <= Chunks(text)
    /\ posted' = Posting(FirstChunks(text, n))
    /\ ended' = IF n = Chunks(text) THEN "sent" ELSE "failed"
    /\ final' = text
    /\ UNCHANGED <<slackStream, suspended, throttled, historyVars>>

(* phase finalize, native: the rest is appended, as well as it goes.        *)
FinalizeNative(text, ok) ==
    LET s == slackStream  delta == DeltaOf(s, text)
    IN  /\ Made /\ s.tier = "native" /\ s.ts # 0
        /\ slackStream' = NoStream /\ ended' = "streamed" /\ final' = text
        /\ posted' = IF ok THEN [posted EXCEPT !.now = @ \o delta] ELSE posted
        /\ tailLost' = (~ok /\ delta # <<>>) /\ grew' = (grew /\ IsPrefix(s.last, text))
        /\ UNCHANGED <<suspended, throttled, unopened>>

(* phase finalize, edits: the message becomes the first chunk and the rest  *)
(* follows, n of them; when anything of that fails everything is sent       *)
(* afresh, m chunks of it.                                                  *)
FinalizeEdit(text, edited, n, m) ==
    LET s == slackStream  whole == IF text = <<>> THEN s.last ELSE text
        inPlace == IF s.ts # 0 /\ edited THEN posted.before \o FirstChunks(whole, 1 + n) ELSE Shown
        done == s.ts # 0 /\ edited /\ 1 + n >= Chunks(whole)
    IN  /\ Made /\ s.tier # "none" /\ (s.tier = "native" => s.ts = 0)
        /\ n = 0 \/ n < Chunks(whole)
        /\ m <= Chunks(whole)
        /\ slackStream' = NoStream /\ final' = whole
        /\ posted' = [before |-> inPlace, now |-> IF done THEN <<>> ELSE FirstChunks(whole, m)]
        /\ ended' = IF done \/ m = Chunks(whole) THEN "sent" ELSE "failed"
        /\ UNCHANGED <<suspended, throttled, historyVars>>

(* phase cancel: the edited message is left with its last text. *)
Cancel(ok) ==
    /\ Made /\ slackStream # NoStream
    /\ posted' = IF ok /\ slackStream.ts # 0 /\ slackStream.tier = "edit" /\ slackStream.last # <<>>
                 THEN [posted EXCEPT !.now = slackStream.last] ELSE posted
    /\ slackStream' = NoStream /\ ended' = "cancelled"
    /\ UNCHANGED <<suspended, throttled, final, historyVars>>

Next ==
    \/ Wait
    \/ \E canNative \in BOOLEAN, ok \in BOOLEAN : Start(canNative, ok) \/ Cancel(ok)
    \/ \E canNative \in BOOLEAN, text \in StreamTexts \ {<<>>}, ok \in BOOLEAN, limited \in BOOLEAN :
           Update(canNative, text, ok, limited)
    \/ \E text \in StreamTexts \ {<<>>}, n \in 0..ChunkCap : Send(text, n)
    \/ \E text \in Texts, ok \in BOOLEAN : FinalizeNative(text, ok)
    \/ \E text \in Texts, edited \in BOOLEAN, n \in 0..ChunkCap, m \in 0..ChunkCap :
           FinalizeEdit(text, edited, n, m)

----------------------------------------------------------------------------
(* A reply that was finalized ends with all of its text, whatever was       *)
(* streamed, refused, throttled or opened again on the way: "the reply      *)
(* never drops" (starters/templates/slack.ts:84-85); and streamed natively  *)
(* it says nothing twice, if each text went on from the one before.         *)
(* Excepted are a native stream whose last piece is refused or that was not *)
(* opened by a start, and a text of more messages than chunkText makes.     *)
ReplyIsWhole ==
    /\ ended = "streamed" /\ ~tailLost /\ ~unopened =>
           IsSuffix(final, Shown) /\ (grew => Shown = final)
    /\ ended = "sent" /\ Len(final) <= ChunkCap * ChunkOf => IsSuffix(final, Shown)
============================================================================
