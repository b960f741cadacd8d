---------------------------- MODULE Membership ----------------------------
(***************************************************************************)
(* One channel of a catalog and its memberships: the user's requests (join,*)
(* leave, retry, switch on or off, delete), the store, and the connected   *)
(* accounts, each of which reads the catalog and its own membership, talks *)
(* to Telegram and then writes back what it read with the changes.  The    *)
(* user and the accounts run concurrently; every statement on the store is *)
(* a step of its own unless a transaction holds several.                   *)
(***************************************************************************)
EXTENDS Naturals, FiniteSets

CONSTANTS Members,       \* accounts
          Faults         \* whether answers of Telegram get lost and the program is killed

ASSUME MembershipAssumption == IsFiniteSet(Members) /\ Faults \in BOOLEAN

VARIABLES
    catalog,     \* the catalog the channel belongs to: outbound or scout
    channel,     \* its row
    mem,         \* account_channel_memberships of the channel
    tg,          \* what Telegram knows of each account: out, requested, in
    pass,        \* each account's pass over the row
    ui           \* the user's call under way

memVars == <<catalog, channel, mem, tg, pass, ui>>

-----------------------------------------------------------------------------
Channels == [state : {"listed", "gone", "archived"}, active : BOOLEAN,
             status : {"paused", "joining", "ready"}, removing : BOOLEAN]
NewChannel == [state |-> "listed", active |-> FALSE, status |-> "paused", removing |-> FALSE]
MemStatuses == {"none", "joining", "pending", "member", "leaving", "error"}
MemRows == [status : MemStatuses, member : BOOLEAN, req : BOOLEAN]
NoMem == [status |-> "none", member |-> FALSE, req |-> FALSE]
Joining == [NoMem EXCEPT !.status = "joining"]

PassSteps == {"idle", "listed", "ask", "leave", "saveRow", "save", "delete", "complete"}
NoPass == [step |-> "idle", kind |-> "reconcile", row |-> NewChannel, mem |-> NoMem]
NoUserCall == [op |-> "none", row |-> NewChannel, on |-> FALSE, known |-> {}]

MembershipInit ==
    /\ catalog \in {"outbound", "scout"}
    /\ channel = NewChannel
    /\ mem = [a \in Members |-> NoMem]
    /\ tg = [a \in Members |-> "out"]
    /\ pass = [a \in Members |-> NoPass]
    /\ ui = NoUserCall

-----------------------------------------------------------------------------
(* The store *)

SavedPlainly(row) == row
\* save: a removal that was requested meanwhile stays; a row that is gone is
\* inserted again, an archived scout chat restored.
SavedRow(row) ==
    IF channel.state = "listed"
    THEN [row EXCEPT !.removing = @ \/ channel.removing]
    ELSE IF channel.state = "archived" THEN [row EXCEPT !.removing = FALSE] ELSE row

saveCatalogMembership(a, m) == [m EXCEPT !.req = @ \/ mem[a].req]

CompleteWhenPaused ==
    IF channel.removing /\ ~channel.active /\ \A a \in Members : mem[a] = NoMem
    THEN [channel EXCEPT !.state = IF catalog = "scout" THEN "archived" ELSE "gone"]
    ELSE channel
CompleteCatalogRemoval ==
    IF channel.state = "listed" /\ channel.removing /\ \A a \in Members : mem[a] = NoMem
    THEN IF catalog = "scout"
         THEN [channel EXCEPT !.state = "archived", !.active = TRUE, !.status = "paused"]
         ELSE [NewChannel EXCEPT !.state = "gone"]
    ELSE channel

-----------------------------------------------------------------------------
(* The user's calls *)

\* The early returns of Toggle, Join, Leave and RetryJoin.
Accepted(op, on) ==
    /\ op = "toggle" => channel.active # on /\ ~(on /\ channel.removing)
    /\ op \in {"join", "retry"} => ~channel.removing

\* A call reads the row; Toggle and Join write it back later.
CallReads(op, on) ==
    /\ ui.op = "none" /\ channel.state = "listed" /\ Accepted(op, on)
    /\ ui' = [op |-> op, row |-> channel, on |-> on, known |-> {}]
    /\ UNCHANGED <<catalog, channel, mem, tg, pass>>

\* joiningMemberships: Join reads who has a membership after it has read the row.
ListMemberships ==
    /\ ui.op = "join"
    /\ ui' = [ui EXCEPT !.op = "intend", !.known = {a \in Members : mem[a] # NoMem}]
    /\ UNCHANGED <<catalog, channel, mem, tg, pass>>

Toggle ==
    /\ ui.op = "toggle"
    /\ channel' = SavedRow([ui.row EXCEPT !.active = ui.on])
    /\ ui' = NoUserCall
    /\ UNCHANGED <<catalog, mem, tg, pass>>

\* The memberships that are saved with the row, in one transaction.
WithIntents(as) ==
    [a \in Members |-> IF a \in as THEN saveCatalogMembership(a, Joining) ELSE mem[a]]

\* Accounts that had no membership get an intent, if they are eligible.
JoinChannel(eligible) ==
    /\ ui.op = "intend"
    /\ channel' = SavedRow([ui.row EXCEPT !.status = "joining"])
    /\ mem' = WithIntents(eligible \ ui.known)
    /\ ui' = NoUserCall
    /\ UNCHANGED <<catalog, tg, pass>>

RequestCatalogLeave ==
    /\ ui.op = "leave" /\ ui' = NoUserCall
    /\ channel' = IF channel.state = "gone" THEN channel
                  ELSE [channel EXCEPT !.active = FALSE, !.status = "paused"]
    /\ mem' = [a \in Members |->
                  IF channel.state = "gone" \/ mem[a] = NoMem THEN mem[a]
                  ELSE IF mem[a] = Joining THEN NoMem
                  ELSE [mem[a] EXCEPT !.status = "leaving"]]
    /\ UNCHANGED <<catalog, tg, pass>>

\* The request that was sent is forgotten with its date.
RetryPendingCatalogMemberships ==
    LET again == {a \in Members : mem[a].status = "pending" /\ ~mem[a].member}
        may == channel.state # "gone" /\ ~channel.removing
    IN  /\ ui.op = "retry" /\ ui' = NoUserCall
        /\ mem' = [a \in Members |-> IF a \in again /\ may THEN Joining ELSE mem[a]]
        /\ channel' = IF again # {} /\ may THEN [channel EXCEPT !.status = "joining"] ELSE channel
        /\ UNCHANGED <<catalog, tg, pass>>

RequestCatalogRemoval ==
    /\ ui.op = "none" /\ channel.state = "listed"
    /\ channel' = [channel EXCEPT !.active = FALSE, !.status = "paused", !.removing = TRUE]
    /\ UNCHANGED <<catalog, mem, tg, pass, ui>>

\* AddLinks with the link of a channel that is no longer listed; it gets a new
\* identifier, which no pass under way and no membership knows.
AddLinks ==
    /\ ui.op = "none" /\ channel.state # "listed"
    /\ \A a \in Members : mem[a] = NoMem /\ pass[a] = NoPass
    /\ channel' = SavedRow(NewChannel)
    /\ UNCHANGED <<catalog, mem, tg, pass, ui>>

-----------------------------------------------------------------------------
(* An account's pass: reconcileCatalogMembershipIntents, then Register *)

MemberStep(a, s) == pass[a].step = s
Go(a, s) == pass' = [pass EXCEPT ![a].step = s]
Rest(a) == pass' = [pass EXCEPT ![a] = NoPass]

BeginPass(a, kind) ==
    /\ MemberStep(a, "idle") /\ channel.state = "listed"
    /\ kind = "register" => catalog = "outbound" /\ channel.active
    /\ pass' = [pass EXCEPT ![a] = [NoPass EXCEPT !.step = "listed", !.kind = kind,
                                                  !.row = channel]]
    /\ UNCHANGED <<catalog, channel, mem, tg, ui>>

\* Only the reconciliation looks at the removal, Register does not.
Removing(p) == p.kind = "reconcile" /\ p.row.removing

\* What the membership that was read asks for.
Goal(p) ==
    LET status == p.mem.status
        out == IF p.mem.member THEN "leave" ELSE "delete"
    IN  IF p.kind = "register"
        THEN CASE status = "member"  -> "row"
               [] status = "pending" -> "check"
               [] status = "joining" -> "join"
               [] OTHER              -> "nothing"
        ELSE CASE status = "pending" -> "check"
               [] status = "none"    -> IF Removing(p) THEN "complete" ELSE "nothing"
               [] status = "leaving" ->
                     IF p.mem.req /\ ~p.mem.member /\ ~Removing(p) THEN "check" ELSE out
               [] status = "joining" -> IF Removing(p) THEN out ELSE "join"
               [] OTHER              -> IF Removing(p) THEN out ELSE "nothing"

\* A join that is not due yet, and a channel the account is not assigned to,
\* are passed over.
LoadMembership(a) ==
    LET p == [pass[a] EXCEPT !.mem = mem[a]]
        next == CASE Goal(p) \in {"check", "join", "leave"} -> "ask"
                  [] Goal(p) = "row" -> "saveRow"
                  [] Goal(p) \in {"delete", "complete"} -> Goal(p)
                  [] OTHER -> "idle"
    IN  /\ MemberStep(a, "listed")
        /\ \/ pass' = [pass EXCEPT ![a] = IF next = "idle" THEN NoPass
                                          ELSE [p EXCEPT !.step = next]]
           \/ Goal(p) \in {"join", "check"} /\ ~Removing(p) /\ Rest(a)
        /\ UNCHANGED <<catalog, channel, mem, tg, ui>>

Answer(a, s, m) == pass' = [pass EXCEPT ![a].step = s, ![a].mem = m]

markMember(a, m) == [m EXCEPT !.status = "member", !.member = TRUE]
markPending(m) == [m EXCEPT !.status = "pending", !.req = TRUE]

JoinAssumed(a) ==
    /\ MemberStep(a, "ask") /\ Goal(pass[a]) = "join"
    /\ \E s \in {"in", "requested"} : tg' = [tg EXCEPT ![a] = s]
    /\ Answer(a, "save", markMember(a, pass[a].mem))
    /\ UNCHANGED <<catalog, channel, mem, ui>>
\* The request is accepted at once, must be approved, or is refused.
AskJoin(a) ==
    /\ MemberStep(a, "ask") /\ Goal(pass[a]) = "join"
    /\ \/ tg' = [tg EXCEPT ![a] = "in"] /\ Answer(a, "save", markMember(a, pass[a].mem))
       \/ tg[a] # "in" /\ tg' = [tg EXCEPT ![a] = "requested"]
          /\ Answer(a, "save", markPending(pass[a].mem))
       \/ UNCHANGED tg /\ Rest(a)
    /\ UNCHANGED <<catalog, channel, mem, ui>>

\* A membership that turns out to be approved while the channel or the account
\* is being taken out is left again.
AskCheck(a) ==
    LET p == pass[a]
        found == markMember(a, p.mem)
    IN  /\ MemberStep(a, "ask") /\ Goal(p) = "check"
        /\ \/ /\ tg[a] = "in"
              /\ IF p.mem.status = "leaving"
                 THEN Go(a, "leave")
                 ELSE Answer(a, IF Removing(p) THEN "saveRow" ELSE "save", found)
           \/ tg[a] # "in" /\ Answer(a, "save", p.mem)
           \/ IF Removing(p) \/ p.mem.status = "leaving" THEN Answer(a, "save", p.mem) ELSE Rest(a)
        /\ UNCHANGED <<catalog, channel, mem, tg, ui>>

Leaves(a) ==
    MemberStep(a, "leave") \/ (MemberStep(a, "ask") /\ Goal(pass[a]) = "leave")

AskLeave(a) ==
    /\ Leaves(a)
    /\ tg' = [tg EXCEPT ![a] = "out"]
    /\ Answer(a, "delete", pass[a].mem)
    /\ UNCHANGED <<catalog, channel, mem, ui>>

\* What is saved is the membership that was read, not what a check found.
LeaveFails(a) ==
    LET p == pass[a]
    IN  /\ Leaves(a)
        /\ Answer(a, "save", IF Removing(p) THEN [p.mem EXCEPT !.status = "error"] ELSE p.mem)
        /\ UNCHANGED <<catalog, channel, mem, tg, ui>>

\* Telegram did what was asked and the answer did not arrive.
AnswerLost(a) ==
    /\ Faults
    /\ \/ Leaves(a) /\ tg' = [tg EXCEPT ![a] = "out"]
       \/ /\ MemberStep(a, "ask") /\ Goal(pass[a]) = "join"
          /\ \/ tg' = [tg EXCEPT ![a] = "in"]
             \/ tg[a] # "in" /\ tg' = [tg EXCEPT ![a] = "requested"]
    /\ Rest(a)
    /\ UNCHANGED <<catalog, channel, mem, ui>>

SaveMembership(a) ==
    LET p == pass[a]
        next == IF p.mem.status # "member" THEN "idle"
                ELSE IF Removing(p) THEN "ask" ELSE "saveRow"
    IN  /\ MemberStep(a, "save")
        /\ mem' = [mem EXCEPT ![a] = saveCatalogMembership(a, p.mem)]
        /\ IF next = "idle" THEN Rest(a) ELSE Go(a, next)
        /\ UNCHANGED <<catalog, channel, tg, ui>>

SaveRow(a) ==
    LET p == pass[a]
    IN  /\ MemberStep(a, "saveRow")
        /\ channel' = SavedRow(IF Removing(p) THEN p.row ELSE [p.row EXCEPT !.status = "ready"])
        /\ IF Removing(p) THEN Go(a, "save") ELSE Rest(a)
        /\ UNCHANGED <<catalog, mem, tg, ui>>

DeleteMembership(a) ==
    /\ MemberStep(a, "delete")
    /\ mem' = [mem EXCEPT ![a] = NoMem]
    /\ IF Removing(pass[a]) THEN Go(a, "complete") ELSE Rest(a)
    /\ UNCHANGED <<catalog, channel, tg, ui>>

CompleteRemoval(a) ==
    /\ MemberStep(a, "complete")
    /\ channel' = CompleteCatalogRemoval
    /\ Rest(a)
    /\ UNCHANGED <<catalog, mem, tg, ui>>

\* An administrator of the channel lets an account in.
Approve(a) ==
    /\ tg[a] = "requested" /\ tg' = [tg EXCEPT ![a] = "in"]
    /\ UNCHANGED <<catalog, channel, mem, pass, ui>>

\* The connection or the program ends between two steps.
AbortPass(a) ==
    /\ Faults /\ ~MemberStep(a, "idle")
    /\ Rest(a)
    /\ UNCHANGED <<catalog, channel, mem, tg, ui>>

PassStep(a) ==
    \/ LoadMembership(a) \/ AskJoin(a) \/ AskCheck(a) \/ AskLeave(a) \/ LeaveFails(a)
    \/ SaveMembership(a) \/ SaveRow(a) \/ DeleteMembership(a) \/ CompleteRemoval(a)

UserStep ==
    \/ \E op \in {"toggle", "join", "leave", "retry"}, on \in BOOLEAN :
          (on => op = "toggle") /\ CallReads(op, on)
    \/ ListMemberships \/ Toggle \/ RequestCatalogLeave \/ RetryPendingCatalogMemberships
    \/ \E eligible \in SUBSET Members : JoinChannel(eligible)
    \/ RequestCatalogRemoval \/ AddLinks

MembershipNext ==
    \/ UserStep
    \/ \E a \in Members :
          \/ \E kind \in {"reconcile", "register"} : BeginPass(a, kind)
          \/ PassStep(a) \/ AnswerLost(a) \/ Approve(a) \/ AbortPass(a)

\* Connected accounts check again and again, and what they ask of Telegram
\* and of the store does not fail for ever.
MembershipFairness ==
    \A a \in Members :
        /\ WF_memVars(PassStep(a))
        /\ SF_memVars(BeginPass(a, "reconcile"))
        /\ SF_memVars(pass[a].kind = "reconcile" /\ LoadMembership(a))
        /\ SF_memVars(AskLeave(a))
        /\ SF_memVars(DeleteMembership(a) \/ CompleteRemoval(a))

MembershipSpec == MembershipInit /\ [][MembershipNext]_memVars /\ MembershipFairness

-----------------------------------------------------------------------------
(* Properties *)

ListedRows == {row \in Channels : row.state = "listed"}
Passes == [step : PassSteps, kind : {"reconcile", "register"}, row : ListedRows, mem : MemRows]

UserCalls == [op : {"none", "toggle", "join", "intend", "leave", "retry"}, row : ListedRows,
              on : BOOLEAN, known : SUBSET Members]

MembershipTypeOK ==
    /\ channel \in Channels /\ mem \in [Members -> MemRows]
    /\ tg \in [Members -> {"out", "requested", "in"}]
    /\ pass \in [Members -> Passes]
    /\ ui \in UserCalls

InFlight(a) == pass[a].step \in {"save", "saveRow"}

\* The row stands for a removal that is on its way.
RemovalUnderWay == channel.state = "listed" /\ channel.removing

\* An account the store calls a member of a channel that is not being removed
\* is in it, whatever the user asks for and however often a pass is cut off
\* between Telegram and the store: deliveries and analytics rely on it.
MemberIsIn == \A a \in Members : mem[a].status = "member" => tg[a] = "in" \/ RemovalUnderWay

\* A request that was sent is remembered, by the store and by a pass.
PendingIsRequested ==
    \A a \in Members : /\ mem[a].status = "pending" => mem[a].req
                       /\ pass[a].mem.status = "pending" => pass[a].mem.req

\* What a pass that read a removal may still rely on: the removal is under way
\* as long as the store knows of a request or a membership that only this pass
\* can delete.
RemovalOutlivesPass(a) ==
    LET p == pass[a]
    IN  /\ p.step = "listed" /\ Removing(p) /\ (mem[a].req \/ mem[a].status = "member")
            => RemovalUnderWay
        /\ p.step = "ask" /\ Goal(p) = "leave" /\ mem[a].status = "member" => RemovalUnderWay
        /\ Removing(p) /\ (\/ p.step = "ask" /\ Goal(p) = "check"
                           \/ InFlight(a) /\ p.mem.status = "member")
            => mem[a].req /\ RemovalUnderWay

\* What a pass is about to write was so when Telegram answered and still is.
AnswerStillHolds(a) ==
    LET p == pass[a]
    IN  /\ p.step = "save" /\ p.mem.status = "member" => tg[a] = "in"
        /\ p.step = "saveRow" /\ Removing(p) => p.mem.status = "member" /\ tg[a] = "in"
        /\ p.step \in {"ask", "leave"} /\ p.mem.status = "leaving" => mem[a].status # "member"
        /\ p.step = "leave" => p.mem.status = "leaving" /\ ~Removing(p)

\* The type, that the store tells the truth about members, and what the passes
\* keep so that it does.
MembershipInv ==
    /\ MembershipTypeOK /\ MemberIsIn /\ PendingIsRequested
    /\ \A a \in Members : RemovalOutlivesPass(a) /\ AnswerStillHolds(a)

\* A removal comes to its end, unless a request of an account is pending, with
\* the accounts' passes cut off at will: it is not on its way for good.
RemovalCompletes ==
    []<>(\/ channel.state # "listed" \/ ~channel.removing
         \/ \E a \in Members : mem[a].status = "pending")

\* A requested removal is not taken back by a row that was read before it: the
\* row keeps the request for as long as it is listed.
RemovalKept ==
    [][channel.state = "listed" /\ channel.removing /\ channel'.state = "listed"
        => channel'.removing]_memVars

\* "A join that was never submitted is removed locally because Telegram has
\* nothing to cancel": an account without a membership has nothing pending.
NothingToCancel ==
    \A a \in Members : mem[a] = NoMem /\ ~InFlight(a) => tg[a] = "out"
============================================================================
