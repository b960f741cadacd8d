------------------------------ MODULE History ------------------------------
(***************************************************************************)
(* Collection of one chat's messages by the scout accounts.  A cycle pages *)
(* backwards through the chat's history from its newest message to the     *)
(* cursor of the account, while the update routers of the connected scouts *)
(* store, edit and delete messages of the same table as Telegram reports   *)
(* them.  Storing a message is two statements, as is handling an update.   *)
(***************************************************************************)
EXTENDS Naturals, Sequences, FiniteSets, FiniteSetsExt

CONSTANTS Scouts,
          MaxMessage,   \* messages of the chat, numbered in the order of posting
          MaxText,      \* texts of a message: the first, and its edits
          MaxChanges,   \* edits and deletions of the chat's messages
          PageSize,     \* scoutHistoryPageSize
          Blank,        \* messages without text
          MaxMishaps     \* calls that fail, updates that are lost, restarts

ASSUME HistoryAssumption ==
    /\ IsFiniteSet(Scouts)
    /\ {MaxMessage, MaxText, PageSize} \subseteq Nat \ {0} /\ {MaxChanges, MaxMishaps} \subseteq Nat
    /\ Blank \subseteq 1 .. MaxMessage

VARIABLES
    chat,       \* Telegram's side: the texts, how many were posted, how many are old
    rows,       \* scout_messages
    tombs,      \* scout_message_tombstones
    cursor,     \* analytics_scout_cursors, 0 when there is none
    scan,       \* the cycle under way
    updates,    \* updates on their way to each scout's router
    routing,    \* what each router does
    seen,       \* scoutUpdateRouter.seen
    since,      \* messages posted before the router's activation
    floor,      \* what each scout's first scan left out as too old
    mishaps

historyVars == <<chat, rows, tombs, cursor, scan, updates, routing, seen, since, floor, mishaps>>
storeVars == <<rows, tombs, cursor>>
routerVars == <<updates, routing, seen, since>>

-----------------------------------------------------------------------------
Messages == 1 .. MaxMessage
Texts == 0 .. MaxText                             \* 0: no such message
NoRow == [text |-> 0, edited |-> 0]
UpdateKinds == {"new", "edit", "delete"}
NoScan == [step |-> "off", todo |-> {}, scout |-> "none", min |-> 0, offset |-> 0,
           max |-> 0, cutoff |-> 0, page |-> <<>>, low |-> 0, last |-> FALSE]
Resting == [step |-> "idle", kind |-> "new", msg |-> 0, text |-> 0]

HistoryInit ==
    /\ chat = [text |-> [m \in Messages |-> 0], posted |-> 0, old |-> 0, changes |-> 0]
    /\ rows = [m \in Messages |-> NoRow] /\ tombs = {}
    /\ cursor = [s \in Scouts |-> 0]
    /\ scan = NoScan
    /\ updates = [s \in Scouts |-> <<>>]
    /\ routing = [s \in Scouts |-> Resting]
    /\ seen = [s \in Scouts |-> {}] /\ since = [s \in Scouts |-> 0]
    /\ floor = [s \in Scouts |-> 0]
    /\ mishaps = 0

Mishap == mishaps < MaxMishaps /\ mishaps' = mishaps + 1

-----------------------------------------------------------------------------
(* Telegram *)

Announce(kind, m, t) ==
    updates' = [s \in Scouts |-> Append(updates[s], [kind |-> kind, msg |-> m, text |-> t])]

Post ==
    LET m == chat.posted + 1
    IN  /\ chat.posted < MaxMessage
        /\ chat' = [chat EXCEPT !.posted = m, !.text[m] = 1]
        /\ Announce("new", m, 1)
        /\ UNCHANGED <<storeVars, scan, routing, seen, since, floor, mishaps>>

EditPost(m) ==
    /\ chat.text[m] \in 1 .. MaxText - 1 /\ chat.changes < MaxChanges
    /\ chat' = [chat EXCEPT !.text[m] = @ + 1, !.changes = @ + 1]
    /\ Announce("edit", m, chat.text[m] + 1)
    /\ UNCHANGED <<storeVars, scan, routing, seen, since, floor, mishaps>>

DeletePost(m) ==
    /\ chat.text[m] # 0 /\ chat.changes < MaxChanges
    /\ chat' = [chat EXCEPT !.text[m] = 0, !.changes = @ + 1]
    /\ Announce("delete", m, 0)
    /\ UNCHANGED <<storeVars, scan, routing, seen, since, floor, mishaps>>

\* The oldest message that was not yet so passes scoutHistoryRetention.
GrowOld ==
    /\ chat.old < chat.posted
    /\ chat' = [chat EXCEPT !.old = @ + 1]
    /\ UNCHANGED <<storeVars, scan, routerVars, floor, mishaps>>

LoseUpdates(s) ==
    /\ updates[s] # <<>> /\ Mishap
    /\ updates' = [updates EXCEPT ![s] = <<>>]
    /\ UNCHANGED <<chat, storeVars, scan, routing, seen, since, floor>>

-----------------------------------------------------------------------------
(* The message store *)

Exists(m) == rows[m].text # 0
CanonicalMessageAt(m) == m \notin tombs

\* Mutant: a save replaces the row whatever its edit date.
SavedOverRow(m, t, edited) ==
    IF m \in tombs THEN rows
    ELSE [rows EXCEPT ![m] = [text |-> t, edited |-> edited]]
\* Insert unless a tombstone or the row is there; an edit replaces an older one.
SaveEncrypted(m, t, edited) ==
    IF m \in tombs THEN rows
    ELSE IF ~Exists(m) \/ edited > rows[m].edited
    THEN [rows EXCEPT ![m] = [text |-> t, edited |-> edited]]
    ELSE rows

-----------------------------------------------------------------------------
(* A scout's update router *)

Route(s, r) == routing' = [routing EXCEPT ![s] = r]

\* An edit of a message that is not stored is ignored, and so are a message
\* from before the activation and the deletion of a message nobody knows.
Receive(s) ==
    LET u == Head(updates[s])
        known == u.msg \in seen[s]
        goes == CASE u.kind = "new" -> u.msg > since[s]
                  [] u.kind = "edit" -> Exists(u.msg)
                  [] u.kind = "delete" -> known \/ Exists(u.msg)
    IN  /\ routing[s] = Resting /\ updates[s] # <<>>
        /\ updates' = [updates EXCEPT ![s] = Tail(@)]
        /\ seen' = IF u.kind = "delete" THEN [seen EXCEPT ![s] = @ \ {u.msg}] ELSE seen
        /\ Route(s, IF ~goes THEN Resting
                    ELSE [step |-> IF u.kind = "delete" THEN "delete" ELSE "check",
                          kind |-> u.kind, msg |-> u.msg, text |-> u.text])
        /\ UNCHANGED <<chat, storeVars, scan, since, floor, mishaps>>

\* A tombstone: the message counts as seen and is not stored.
CheckUpdate(s) ==
    LET r == routing[s]
        accept == CanonicalMessageAt(r.msg)
    IN  /\ r.step = "check"
        /\ Route(s, IF accept THEN [r EXCEPT !.step = "save"] ELSE Resting)
        /\ seen' = IF accept THEN seen ELSE [seen EXCEPT ![s] = @ \cup {r.msg}]
        /\ UNCHANGED <<chat, storeVars, scan, updates, since, floor, mishaps>>

SaveUpdate(s) ==
    LET r == routing[s]
    IN  /\ r.step = "save"
        /\ rows' = SaveEncrypted(r.msg, r.text, IF r.kind = "edit" THEN r.text ELSE 0)
        /\ seen' = [seen EXCEPT ![s] = @ \cup {r.msg}]
        /\ Route(s, Resting)
        /\ UNCHANGED <<chat, tombs, cursor, scan, updates, since, floor, mishaps>>

\* Too little room on the disk: the handler returns the error.
SaveUpdateFails(s) ==
    /\ routing[s].step = "save" /\ Mishap
    /\ Route(s, Resting)
    /\ UNCHANGED <<chat, storeVars, scan, updates, seen, since, floor>>

\* The tombstone and the deletion are one transaction.
DeleteRow(m) == tombs' = tombs \cup {m} /\ rows' = [rows EXCEPT ![m] = NoRow]

DeleteMessage(s) ==
    /\ routing[s].step = "delete"
    /\ DeleteRow(routing[s].msg)
    /\ Route(s, Resting)
    /\ UNCHANGED <<chat, cursor, scan, updates, seen, since, floor, mishaps>>

-----------------------------------------------------------------------------
(* A cycle: each connected scout's scan of the history *)

BeginCycle(connected) ==
    /\ scan.step = "off"
    /\ scan' = [NoScan EXCEPT !.step = "next", !.todo = connected]
    /\ UNCHANGED <<chat, storeVars, routerVars, floor, mishaps>>

BeginScan(s) ==
    /\ scan.step = "next" /\ s \in scan.todo
    /\ scan' = [NoScan EXCEPT !.step = "ask", !.todo = scan.todo \ {s}, !.scout = s,
                              !.min = cursor[s], !.max = cursor[s], !.cutoff = chat.old]
    /\ UNCHANGED <<chat, storeVars, routerVars, floor, mishaps>>

\* A peer that is not resolved, a page that is not answered, a message that is
\* not stored: the failure is recorded and the next scout's turn comes.
ScanFails ==
    /\ scan.step \in {"ask", "store", "cursor"} /\ Mishap
    /\ scan' = [NoScan EXCEPT !.step = "next", !.todo = scan.todo]
    /\ UNCHANGED <<chat, storeVars, routerVars, floor>>

\* Telegram's answer: the newest messages below the offset, above the cursor.
Page ==
    LET all == {m \in Messages : /\ chat.text[m] # 0 /\ m > scan.min
                                 /\ scan.offset = 0 \/ m < scan.offset}
    IN  {m \in all : Cardinality({n \in all : n >= m}) <= PageSize}

FetchPage ==
    /\ scan.step = "ask"
    /\ scan' = IF Page = {} THEN [scan EXCEPT !.step = "cursor"]
               ELSE [scan EXCEPT !.step = "page", !.page = [m \in Page |-> chat.text[m]],
                                 !.low = Min(Page), !.max = Max({@, Max(Page)}),
                                 !.last = Cardinality(Page) < PageSize]
    /\ UNCHANGED <<chat, storeVars, routerVars, floor, mishaps>>

Without(page, m) == [n \in DOMAIN page \ {m} |-> page[n]]

\* The next message of the page: too old for a first scan, without text,
\* deleted, or to be stored.
CollectNext ==
    LET m == Max(DOMAIN scan.page)
        tooOld == scan.min = 0 /\ m <= scan.cutoff
        store == ~tooOld /\ m \notin Blank /\ CanonicalMessageAt(m)
    IN  /\ scan.step = "page" /\ DOMAIN scan.page # {}
        /\ scan' = IF store THEN [scan EXCEPT !.step = "store"]
                   ELSE [scan EXCEPT !.page = Without(@, m), !.last = @ \/ tooOld]
        /\ UNCHANGED <<chat, storeVars, routerVars, floor, mishaps>>

StoreNext ==
    LET m == Max(DOMAIN scan.page)
    IN  /\ scan.step = "store"
        /\ rows' = SaveEncrypted(m, scan.page[m], 0)
        /\ scan' = [scan EXCEPT !.step = "page", !.page = Without(@, m)]
        /\ UNCHANGED <<chat, tombs, cursor, routerVars, floor, mishaps>>

EndAtFirstPage ==
    /\ scan.step = "page" /\ DOMAIN scan.page = {}
    /\ scan' = [scan EXCEPT !.step = "cursor", !.page = <<>>]
    /\ UNCHANGED <<chat, storeVars, routerVars, floor, mishaps>>
\* A full page with nothing too old: there may be more below it.
EndPage ==
    /\ scan.step = "page" /\ DOMAIN scan.page = {}
    /\ scan' = [scan EXCEPT !.step = IF scan.last THEN "cursor" ELSE "ask",
                            !.offset = scan.low, !.page = <<>>]
    /\ UNCHANGED <<chat, storeVars, routerVars, floor, mishaps>>

SaveScoutCursor ==
    LET s == scan.scout
    IN  /\ scan.step = "cursor"
        /\ cursor' = [cursor EXCEPT ![s] = Max({@, scan.max})]
        /\ floor' = IF scan.min = 0 /\ scan.max > 0 THEN [floor EXCEPT ![s] = scan.cutoff] ELSE floor
        /\ scan' = [NoScan EXCEPT !.step = "next", !.todo = scan.todo]
        /\ UNCHANGED <<chat, rows, tombs, routerVars, mishaps>>

EndCycle ==
    /\ scan.step = "next" /\ scan.todo = {}
    /\ scan' = NoScan
    /\ UNCHANGED <<chat, storeVars, routerVars, floor, mishaps>>

\* The process ends and starts again, with new routers.
RestartCollection ==
    /\ Mishap
    /\ scan' = NoScan
    /\ routing' = [s \in Scouts |-> Resting]
    /\ seen' = [s \in Scouts |-> {}]
    /\ since' = [s \in Scouts |-> chat.posted]
    /\ UNCHANGED <<chat, storeVars, updates, floor>>

-----------------------------------------------------------------------------
RouterStep(s) == Receive(s) \/ CheckUpdate(s) \/ SaveUpdate(s) \/ DeleteMessage(s)
ScanStep == \/ \E s \in Scouts : BeginScan(s)
            \/ FetchPage \/ CollectNext \/ StoreNext \/ EndPage \/ SaveScoutCursor \/ EndCycle

HistoryNext ==
    \/ Post \/ GrowOld \/ \E m \in Messages : EditPost(m) \/ DeletePost(m)
    \/ \E s \in Scouts : RouterStep(s) \/ SaveUpdateFails(s) \/ LoseUpdates(s)
    \/ \E connected \in SUBSET Scouts \ {{}} : BeginCycle(connected)
    \/ ScanStep \/ ScanFails \/ RestartCollection

HistorySpec == HistoryInit /\ [][HistoryNext]_historyVars

-----------------------------------------------------------------------------
(* Properties *)

HistoryTypeOK ==
    /\ chat.text \in [Messages -> Texts] /\ chat.posted \in 0 .. MaxMessage
    /\ rows \in [Messages -> [text : Texts, edited : Texts]] /\ tombs \subseteq Messages
    /\ cursor \in [Scouts -> 0 .. MaxMessage]
    /\ \A s \in Scouts : routing[s].kind \in UpdateKinds

\* A cursor never passes a message that was not collected: what lies at or
\* below it and is still in the chat is stored, whatever scan failed half way,
\* in which order pages and updates arrived and wherever the process ended.
NothingSkipped ==
    \A s \in Scouts, m \in Messages :
        m <= cursor[s] /\ m > floor[s] /\ m \notin Blank /\ chat.text[m] # 0
            => Exists(m) \/ m \in tombs

\* Once a deletion was recorded the message is never stored again, although a
\* scan or another scout's router found no tombstone when it looked.
DeletedStaysDeleted == \A m \in tombs : ~Exists(m)

\* The type, a deletion lasts, and a cursor passes nothing by.
HistoryInv == HistoryTypeOK /\ DeletedStaysDeleted /\ NothingSkipped

\* A stored text is only ever replaced by a later edit: a page read before the
\* edit, or an update that comes late, does not bring an older text back.
EditsAdvance ==
    [][\A m \in Messages :
          Exists(m) /\ rows'[m] # rows[m] /\ rows'[m].text # 0
              => rows'[m].edited > rows[m].edited]_historyVars
============================================================================
