------------------------------ MODULE InboxTui ------------------------------
(***************************************************************************)
(* The inbox on a terminal (src/cli/inbox-tui.ts): what the person sees,    *)
(* the keys, and the calls to the daemon (src/inbox/inbox.ts through        *)
(* src/ipc/server.ts) whose answers come back while more keys are pressed.  *)
(* The daemon answers the calls of one client in the order it made them.    *)
(*                                                                          *)
(* The screen is one record, and what handlers have in common (a filter, a  *)
(* render, a fetch) are functions of it.  Scrolling, wording and the        *)
(* editing of what is typed are left out.                                   *)
(***************************************************************************)
EXTENDS Naturals, Sequences, FiniteSets

CONSTANTS
    MaxDecisions,   \* bound: decisions, numbered by age
    InitialDecisions, \* those proposed before the person looks
    Matching,       \* the decisions that a search matches
    VoteKeys,       \* among "approve", "deny", "modify"
    MaxKeys,        \* bound: keys pressed
    MaxReplies      \* bound: replies the agents post

VARIABLES
    inbox,    \* decision -> [st, unread], in the daemon
    screen,   \* what the terminal program holds
    keys, replies,  \* the bounded counters
    cast      \* history: <<decision asked about, decision voted on>>

tuiVars == <<inbox, screen, keys, replies, cast>>

InboxAssumption ==
    /\ MaxDecisions \in Nat \ {0} /\ MaxKeys \in Nat /\ MaxReplies \in Nat
    /\ InitialDecisions \subseteq 1..MaxDecisions
    /\ VoteKeys \subseteq {"approve", "deny", "modify"}

Ids == 1..MaxDecisions
NoRow == 0
NoPrompt == [vote |-> "none", step |-> "none", about |-> 0]

(* rows has what the last list said of the decisions in it, visible those   *)
(* of them that are shown, and selected is a position among these, youngest *)
(* first.  Three fields are history: seen has the decisions whose replies have all  *)
(* been painted, whole says that no reply came to the decision since its    *)
(* details were fetched, and prompt.about is the row that was selected when *)
(* the prompt opened, which the code does not keep.                         *)
Blank == [rows |-> <<>>, visible |-> {}, selected |-> 1, mode |-> "normal",
          searching |-> FALSE, all |-> FALSE, prompt |-> NoPrompt, detail |-> 0,
          asked |-> <<>>, running |-> TRUE, whole |-> TRUE, seen |-> Ids]

Fetch(u) == [u EXCEPT !.asked = Append(@, [m |-> "list", all |-> u.all])]

Init ==
    /\ inbox = [d \in Ids |-> [st |-> IF d \in InitialDecisions THEN "open" ELSE "none",
                               unread |-> FALSE]]
    /\ screen = Fetch(Blank)
    /\ keys = 0 /\ replies = 0 /\ cast = {}

----------------------------------------------------------------------------
(* The screen. *)

Position(d, shown) == Cardinality({e \in shown : e >= d})
At(u) == {d \in u.visible : Position(d, u.visible) = u.selected}
Current(u) == IF At(u) = {} THEN NoRow ELSE CHOOSE d \in At(u) : TRUE
IsOpen(u) == Current(u) # NoRow /\ u.rows[Current(u)].st = "open"

\* The rows that the search matches; the selection stays a position.
ApplyFilter(u) ==
    LET shown == {d \in DOMAIN u.rows : u.searching => d \in Matching}
    IN [u EXCEPT !.visible = shown,
                 !.selected = IF @ <= Cardinality(shown) THEN @
                              ELSE IF shown = {} THEN 1 ELSE Cardinality(shown)]

\* The request for the details of the selected row.
AskDetail(u) ==
    Append(u.asked, [m |-> "get", d |-> Current(u), unread |-> u.rows[Current(u)].unread])

\* Mutant: details that are held are taken to be of the selected row.
RenderHeld(u) ==
    IF Current(u) = NoRow \/ u.detail # 0 THEN u ELSE [u EXCEPT !.asked = AskDetail(u)]

\* The preview shows the replies that it holds if they are of this row.
Painted(u) == [u EXCEPT !.seen = IF u.whole THEN @ \cup {u.detail} ELSE @]

\* Paints, then asks for the details of the selected row unless it has them.
Render(u) ==
    IF Current(u) = NoRow THEN u
    ELSE IF u.detail = Current(u) THEN Painted(u)
    ELSE [u EXCEPT !.detail = 0, !.asked = AskDetail(u)]

----------------------------------------------------------------------------
(* The daemon. *)

Propose(d) ==
    /\ inbox[d].st = "none" /\ \A e \in Ids : e < d => inbox[e].st # "none"
    /\ inbox' = [inbox EXCEPT ![d].st = "open"]
    /\ UNCHANGED <<screen, keys, replies, cast>>

\* An agent posts a reply, or somebody else resolves the decision.
ReplyPosted(d) ==
    /\ inbox[d].st # "none" /\ replies < MaxReplies
    /\ inbox' = [inbox EXCEPT ![d].unread = TRUE]
    /\ screen' = [screen EXCEPT !.seen = @ \ {d}, !.whole = @ /\ screen.detail # d]
    /\ replies' = replies + 1
    /\ UNCHANGED <<keys, cast>>

ResolvedElsewhere(d) ==
    /\ inbox[d].st = "open"
    /\ inbox' = [inbox EXCEPT ![d].st = "resolved"]
    /\ UNCHANGED <<screen, keys, replies, cast>>

\* listActionable: what needs the attention of its owner.
Actionable == {d \in Ids : inbox[d].st = "open" \/ inbox[d].unread}

\* inbox.list: all there are, or the actionable ones.
Listed(all) ==
    [d \in {d \in Ids : inbox[d].st # "none" /\ (all \/ d \in Actionable)} |-> inbox[d]]

Popped == [screen EXCEPT !.asked = Tail(@)]
Pending(m) == screen.running /\ screen.asked # <<>> /\ Head(screen.asked).m = m

\* inbox.list is answered: fetch goes on, and whoever called it renders.
ListAnswered ==
    /\ Pending("list")
    /\ screen' = Render(ApplyFilter([Popped EXCEPT !.rows = Listed(Head(screen.asked).all)]))
    /\ UNCHANGED <<inbox, keys, replies, cast>>

\* markDecisionRead, for the person.
MarkRead(d) == inbox' = [inbox EXCEPT ![d].unread = FALSE]

\* inbox.get marks the replies read and fetchDetail goes on: it keeps them,
\* whatever is selected by now, and refetches the list if some were unread.
GetAnswered ==
    /\ Pending("get")
    /\ LET req == Head(screen.asked)
           got == [Popped EXCEPT !.detail = req.d, !.whole = TRUE]
       IN /\ MarkRead(req.d)
          /\ screen' = IF req.unread THEN Fetch(got) ELSE Render(got)
    /\ UNCHANGED <<keys, replies, cast>>

\* inbox.respond resolves an open decision and respond refetches the list; it
\* is an error if the decision is no longer open.  The status line renders.
RespondAnswered ==
    /\ Pending("respond")
    /\ LET d == Head(screen.asked).d
       IN IF inbox[d].st = "open"
          THEN /\ inbox' = [inbox EXCEPT ![d].st = "resolved"]
               /\ screen' = Fetch(Render(Popped))
          ELSE /\ screen' = Render(Popped)
               /\ UNCHANGED inbox
    /\ UNCHANGED <<keys, replies, cast>>

----------------------------------------------------------------------------
(* The keys. *)

Key(mode) == screen.running /\ screen.mode = mode /\ keys < MaxKeys /\ keys' = keys + 1
Shown(u) == screen' = u /\ UNCHANGED <<inbox, replies, cast>>

\* moveDown, moveUp and findNext stay among the visible rows.
Select(k) ==
    /\ k <= Cardinality(screen.visible)
    /\ Shown(Render([screen EXCEPT !.selected = k]))

\* j, k, G, g g, a page, n: another row is selected.
Move(k) == Key("normal") /\ Select(k)

\* Tab, or r.
Refetch(all) ==
    /\ Key("normal") /\ Shown(Fetch([screen EXCEPT !.all = all]))

\* o and Enter show one decision, q and Esc go back; ? shows the keys.
OpenDetail ==
    /\ Key("normal") /\ Current(screen) # NoRow
    /\ Shown(Render([screen EXCEPT !.mode = "detail"]))
Help == \E m \in {"normal", "detail"} : Key(m) /\ Shown([screen EXCEPT !.mode = "help"])
Back ==
    /\ \E m \in {"detail", "help", "prompt", "command"} : Key(m)
    /\ Shown(Render([screen EXCEPT !.mode = "normal", !.prompt = NoPrompt]))

\* / forgets the search without filtering anew; a typed one filters, and
\* Esc takes it back.
BeginSearch == Key("normal") /\ Shown(Render([screen EXCEPT !.mode = "search", !.searching = FALSE]))
Search(on) ==
    /\ Key("search")
    /\ \E m \in {"search", "normal"} :
         Shown(Render(ApplyFilter([screen EXCEPT !.searching = on, !.mode = m])))

\* a, d and m open a prompt if the selected row is open.
StartAction(vote) ==
    /\ \E m \in {"normal", "detail"} : Key(m)
    /\ Current(screen) # NoRow
    /\ Shown(Render(
         IF IsOpen(screen)
         THEN [screen EXCEPT !.mode = "prompt",
                 !.prompt = [vote |-> vote, step |-> "message", about |-> Current(screen)]]
         ELSE screen))

\* respond: the vote is for the row that is selected now.
Voted(u) ==
    IF IsOpen(u) THEN [u EXCEPT !.asked = Append(@, [m |-> "respond", d |-> Current(u)])]
    ELSE Render(u)
CastFor(about) ==
    cast' = IF IsOpen(screen) THEN cast \cup {<<about, Current(screen)>>} ELSE cast

\* Enter in a prompt: a message, and for modify a payload after it, which is
\* tried again while it is not JSON.
CommitPrompt ==
    /\ Key("prompt")
    /\ LET p == screen.prompt
       IN IF p.vote = "modify" /\ p.step = "message"
          THEN screen' = Render([screen EXCEPT !.prompt.step = "payload"]) /\ UNCHANGED cast
          ELSE \/ /\ screen' = Voted([screen EXCEPT !.prompt = NoPrompt, !.mode = "normal"])
                  /\ CastFor(p.about)
               \/ p.step = "payload" /\ screen' = Render(screen) /\ UNCHANGED cast
    /\ UNCHANGED <<inbox, replies>>

\* : and then Enter: approve or deny at once; all, open or refresh.
BeginCommand == Key("normal") /\ Shown(Render([screen EXCEPT !.mode = "command"]))
CommitCommand ==
    LET closed == [screen EXCEPT !.mode = "normal"]
    IN /\ Key("command")
       /\ \/ screen' = Render(Voted(closed)) /\ CastFor(Current(screen))
          \/ /\ \E all \in BOOLEAN : screen' = Render(Fetch([closed EXCEPT !.all = all]))
             /\ UNCHANGED cast
       /\ UNCHANGED <<inbox, replies>>

Quit ==
    /\ \E m \in {"normal", "detail", "command"} : Key(m)
    /\ Shown([screen EXCEPT !.running = FALSE, !.asked = <<>>])

Next ==
    \/ \E d \in Ids : Propose(d) \/ ReplyPosted(d) \/ ResolvedElsewhere(d)
    \/ ListAnswered \/ GetAnswered \/ RespondAnswered
    \/ \E k \in Ids : Move(k)
    \/ \E all \in BOOLEAN : Refetch(all)
    \/ OpenDetail \/ Help \/ Back
    \/ BeginSearch \/ \E on \in BOOLEAN : Search(on)
    \/ \E vote \in VoteKeys : StartAction(vote)
    \/ CommitPrompt \/ BeginCommand \/ CommitCommand \/ Quit

Spec == Init /\ [][Next]_tuiVars

----------------------------------------------------------------------------
Decisions == [st : {"none", "open", "resolved"}, unread : BOOLEAN]
Prompts == [vote : {"none", "approve", "deny", "modify"}, step : {"none", "message", "payload"},
            about : 0..MaxDecisions]
Requests == [m : {"list"}, all : BOOLEAN] \cup [m : {"get"}, d : Ids, unread : BOOLEAN]
            \cup [m : {"respond"}, d : Ids]
Screens == [rows : UNION {[S -> Decisions] : S \in SUBSET Ids}, visible : SUBSET Ids,
            selected : Ids, mode : {"normal", "detail", "help", "search", "prompt", "command"},
            searching : BOOLEAN, all : BOOLEAN, prompt : Prompts, detail : 0..MaxDecisions,
            asked : Seq(Requests), running : BOOLEAN, whole : BOOLEAN, seen : SUBSET Ids]

TypeOK ==
    /\ inbox \in [Ids -> Decisions]
    /\ screen \in Screens /\ screen.visible \subseteq DOMAIN screen.rows
    /\ keys \in 0..MaxKeys /\ replies \in 0..MaxReplies
    /\ cast \subseteq (0..MaxDecisions) \X Ids

(* Once no answer is outstanding the preview has the replies of the row it  *)
(* shows, whatever keys were pressed and lists came while they were on      *)
(* their way (cli/inbox-tui.ts:230-260, 316-327).                           *)
PreviewCatchesUp ==
    screen.running /\ screen.asked = <<>> /\ Current(screen) # NoRow
        => screen.detail = Current(screen)

(* A reply to a resolved decision is unread, and the decision listed, until *)
(* the reply has been painted (ipc/server.ts:633-636).                      *)
RepliesAreSeen ==
    screen.running /\ screen.asked = <<>> =>
        \A d \in Ids : inbox[d].st = "resolved" /\ ~inbox[d].unread => d \in screen.seen

(* A vote goes to the decision that was selected when it was asked for.     *)
VoteGoesWhereAsked == \A pair \in cast : pair[1] = pair[2]
=============================================================================
