---------------------------- MODULE TelegramPoll ----------------------------
(***************************************************************************)
(* The inbound side of the telegram starter                                *)
(* (starters/templates/telegram.ts): the long poll, the offset that tells  *)
(* Telegram what it may forget, and its copy on disk.                      *)
(***************************************************************************)
EXTENDS Naturals, FiniteSetsExt

CONSTANTS Updates,    \* bound: updates Telegram gets, 1..n
          Loads       \* bound: times the extension is registered

TelegramAssumption == Updates \in Nat /\ Loads \in Nat \ {0}

UpdateIds == 1..Updates

VARIABLES
    poll,        \* unloaded, getMe, ready, asked, backoff, ended
    offset,      \* the next update wanted, 1 at first
    asked,       \* the offset the running request named
    onDisk,      \* offset.json
    arrived,     \* updates Telegram has got so far
    confirmed,   \* ... and forgotten: it was asked for later ones
    loads,
    \* history
    emitted,     \* emitted[u]: times handed to every subscriber
    skipped,     \* the updates whose handling threw
    unsaved      \* a load ended without its offset saved

telegramVars == <<poll, offset, asked, onDisk, arrived, confirmed, loads, emitted, skipped, unsaved>>

TypeOK ==
    /\ poll \in {"unloaded", "getMe", "ready", "asked", "backoff", "ended"}
    /\ offset \in 1..Updates + 1 /\ asked \in 1..Updates + 1 /\ onDisk \in 1..Updates + 1
    /\ arrived \in 0..Updates /\ confirmed \in 0..Updates /\ loads \in 0..Loads
    /\ emitted \in [UpdateIds -> 0..Loads] /\ skipped \subseteq UpdateIds /\ unsaved \in BOOLEAN

Init ==
    /\ poll = "unloaded" /\ offset = 1 /\ asked = 1 /\ onDisk = 1
    /\ arrived = 0 /\ confirmed = 0 /\ loads = 0
    /\ emitted = [u \in UpdateIds |-> 0] /\ skipped = {} /\ unsaved = FALSE

Arrives ==
    /\ arrived < Updates
    /\ arrived' = arrived + 1
    /\ UNCHANGED <<poll, offset, asked, onDisk, confirmed, loads, emitted, skipped, unsaved>>

(* register: loadOffset, and getMe is awaited. *)
Register ==
    /\ poll = "unloaded" /\ loads < Loads
    /\ loads' = loads + 1 /\ poll' = "getMe" /\ offset' = onDisk
    /\ UNCHANGED <<asked, onDisk, arrived, confirmed, emitted, skipped, unsaved>>

(* Without getMe there is no polling in this load. *)
GetMe(ok) ==
    /\ poll = "getMe"
    /\ poll' = IF ok THEN "ready" ELSE "ended"
    /\ UNCHANGED <<offset, asked, onDisk, arrived, confirmed, loads, emitted, skipped, unsaved>>

(* getUpdates: with it Telegram forgets what comes before the offset. *)
Ask ==
    /\ poll \in {"ready", "backoff"}
    /\ poll' = "asked" /\ asked' = offset
    /\ confirmed' = Max({confirmed, Min({offset - 1, arrived})})
    /\ UNCHANGED <<offset, onDisk, arrived, loads, emitted, skipped, unsaved>>

(* The first update Telegram still has from the offset on. *)
First == Max({asked, confirmed + 1})

(* The updates First..n are handled in one go, up to the first that throws, *)
(* which is not handled and not tried again.                                *)
Handle(n, thrown) ==
    /\ emitted' = [u \in UpdateIds |->
           IF u \in First..n /\ (thrown = 0 \/ u < thrown) THEN emitted[u] + 1 ELSE emitted[u]]
    /\ skipped' = IF thrown = 0 THEN skipped ELSE skipped \cup {thrown}

\* Mutant: the offset is moved to the end of the batch before it is handled.
AnswerAtOnce(n, thrown, saved) ==
    /\ poll = "asked" /\ n \in First - 1..arrived /\ (thrown # 0 => thrown \in First..n)
    /\ offset' = IF n < First THEN offset ELSE n + 1
    /\ Handle(n, thrown)
    /\ onDisk' = IF thrown = 0 /\ n >= First /\ saved THEN offset' ELSE onDisk
    /\ poll' = IF thrown = 0 THEN "ready" ELSE "backoff"
    /\ UNCHANGED <<asked, arrived, confirmed, loads, unsaved>>

(* Each update moves the offset before it is handled; the offset is saved   *)
(* at the end of a batch in which nothing threw (the write may fail).       *)
Answer(n, thrown, saved) ==
    LET done == IF thrown = 0 THEN n ELSE thrown
    IN  /\ poll = "asked" /\ n \in First - 1..arrived
        /\ thrown # 0 => thrown \in First..n
        /\ offset' = IF n < First THEN offset ELSE done + 1
        /\ Handle(n, thrown)
        /\ onDisk' = IF thrown = 0 /\ n >= First /\ saved THEN offset' ELSE onDisk
        /\ poll' = IF thrown = 0 THEN "ready" ELSE "backoff"
        /\ UNCHANGED <<asked, arrived, confirmed, loads, unsaved>>

AskFails ==
    /\ poll = "asked"
    /\ poll' = "backoff"
    /\ UNCHANGED <<offset, asked, onDisk, arrived, confirmed, loads, emitted, skipped, unsaved>>

(* unload stops the loop, whatever it awaits, and saves the offset. *)
Unload(saved) ==
    /\ poll # "unloaded"
    /\ poll' = "unloaded"
    /\ onDisk' = IF saved THEN offset ELSE onDisk
    /\ unsaved' = (unsaved \/ onDisk' # offset)
    /\ UNCHANGED <<offset, asked, arrived, confirmed, loads, emitted, skipped>>

(* The process dies. *)
Crash ==
    /\ poll # "unloaded"
    /\ poll' = "unloaded"
    /\ unsaved' = (unsaved \/ onDisk # offset)
    /\ UNCHANGED <<offset, asked, onDisk, arrived, confirmed, loads, emitted, skipped>>

Next ==
    \/ Arrives \/ Register \/ Ask \/ AskFails \/ Crash
    \/ \E ok \in BOOLEAN : GetMe(ok)
    \/ \E n \in 0..Updates, thrown \in 0..Updates, saved \in BOOLEAN : Answer(n, thrown, saved)
    \/ \E saved \in BOOLEAN : Unload(saved)

----------------------------------------------------------------------------
Tries(u) == emitted[u] + IF u \in skipped THEN 1 ELSE 0

(* Telegram forgets an update only when it was handled or its own handling  *)
(* threw, never because another's did, through crashes and failed writes of *)
(* the offset; and an update is handled again only by a load that found an  *)
(* old offset.                                                              *)
ForgottenWasHandled == \A u \in 1..confirmed : Tries(u) > 0
RepeatedOnlyIfUnsaved == (\E u \in UpdateIds : Tries(u) > 1) => unsaved
=============================================================================
