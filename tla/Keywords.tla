------------------------------ MODULE Keywords ------------------------------
(***************************************************************************)
(* Canonical keywords and the triggers derived from them.  The tables hold *)
(* the keywords and the forms each one covers; the saved settings and the  *)
(* running configuration repeat the active triggers among the keywords the *)
(* user typed.  Every call changes the tables, then reads them again,      *)
(* loads the settings, saves them and replaces the configuration, each a   *)
(* step of its own and without a lock, while the analysis does the same.   *)
(* A keyword's identifier is the hash of its value: here the value itself. *)
(***************************************************************************)
EXTENDS Naturals, FiniteSets

CONSTANTS Values,       \* keywords and forms, of one language
          Lemma,        \* the canonical form ExtractCanonicalWords finds
          Corpora,      \* what the stored messages may contain: sets of forms
          Kept,         \* triggers of an earlier session
          Clerks,       \* concurrent calls of the desktop
          MaxAsked      \* calls and restarts

ASSUME KeywordsAssumption ==
    /\ Lemma \in [Values -> Values] /\ Corpora \subseteq SUBSET Values
    /\ Kept \subseteq Values /\ MaxAsked \in Nat

VARIABLES
    words,      \* canonical_keywords
    forms,      \* canonical_keyword_forms
    stops,      \* analytics_service_words
    prefs,      \* KeywordSettings: Keywords, and those of them that are triggers
    serving,    \* runtimeconfig.Snapshot: Keywords and CanonicalTriggers
    desk,       \* what each call, and the analysis, has yet to do
    asked,
    typed       \* every keyword the user ever saved

keywordVars == <<words, forms, stops, prefs, serving, desk, asked, typed>>
tables == <<words, forms, stops>>

-----------------------------------------------------------------------------
Cycle == "cycle"
Nobody == "nobody"
Classes == {"neutral", "positive", "negative"}
NoWord == [class |-> "none", active |-> FALSE]
NoForm == [owner |-> Nobody, manual |-> FALSE]
NothingToDo == [step |-> "rest", rows |-> {}, was |-> {}, todo |-> {}, dropped |-> {},
           found |-> {}]
Job(step, todo) == [NothingToDo EXCEPT !.step = step, !.todo = todo]

IsKeyword(w) == words[w].class # "none"
ListCanonical(class) ==
    {[word |-> w, active |-> words[w].active,
      values |-> {w} \cup {v \in Values : forms[v].owner = w}]
        : w \in {w \in Values : words[w].class = class}}
AllRows == UNION {ListCanonical(class) : class \in Classes}
canonicalValues(rs) == UNION {r.values : r \in rs}
Active(rs) == {r \in rs : r.active}
Identifiers(rs) == {r.word : r \in rs}

\* What a call puts into the settings and the configuration, from the rows and
\* the settings it read: the typed keywords that no trigger owns or owned, and
\* the triggers that are active now.
OwnedByRows(rs, s, dropped) ==
    canonicalValues({r \in rs : r.word \in s.owned \/ r.active}) \cup dropped
Owned(rs, s, dropped) ==
    canonicalValues({r \in rs : r.word \in s.owned \/ r.active}) \cup s.owned \cup dropped
Manual(rs, s, dropped) == s.keywords \ Owned(rs, s, dropped)
Merged(rs, s, dropped) ==
    [keywords |-> Manual(rs, s, dropped) \cup Identifiers(Active(rs)),
     owned |-> Identifiers(Active(rs))]
Configured(rs, s, dropped) ==
    [keywords |-> Manual(rs, s, dropped) \cup canonicalValues(Active(rs)),
     triggers |-> {<<r.word, r.values>> : r \in Active(rs)}]

\* After a session that left some triggers and some typed keywords; the program
\* synchronised them when it started.
KeywordsInit ==
    /\ \E by \in SUBSET (Values \ Kept) :
          /\ words = [w \in Values |-> IF w \in Kept THEN [class |-> "positive", active |-> TRUE] ELSE NoWord]
          /\ forms = [v \in Values |-> IF v \in Kept THEN [owner |-> v, manual |-> FALSE] ELSE NoForm]
          /\ typed = by
          /\ prefs = [keywords |-> by \cup Kept, owned |-> Kept]
          /\ serving = [keywords |-> by \cup Kept, triggers |-> {<<w, {w}>> : w \in Kept}]
    /\ stops = {} /\ asked = 0
    /\ desk = [c \in Clerks \cup {Cycle} |-> NothingToDo]

Ask(c) == c \in Clerks /\ desk[c] = NothingToDo /\ asked < MaxAsked /\ asked' = asked + 1
Do(c, job) == desk' = [desk EXCEPT ![c] = job]
ThenSync(c, dropped) == Do(c, [NothingToDo EXCEPT !.step = "neutral", !.dropped = dropped])

-----------------------------------------------------------------------------
(* Calls that change the tables and then synchronise *)

ClassifyCanonical(c, w, class) ==
    /\ Ask(c)
    /\ words' = IF ~IsKeyword(w) THEN words
                ELSE [words EXCEPT ![w] = [class |-> class, active |-> @.active /\ class = "positive"]]
    /\ ThenSync(c, {})
    /\ UNCHANGED <<forms, stops, prefs, serving, typed>>

CanBeTrigger(w) == words[w].class = "positive"
SetCanonicalTrigger(w, on) == CanBeTrigger(w) /\ words' = [words EXCEPT ![w].active = on]

SetTrigger(c, w, on) ==
    /\ Ask(c) /\ SetCanonicalTrigger(w, on)
    /\ ThenSync(c, {})
    /\ UNCHANGED <<forms, stops, prefs, serving, typed>>

AddCanonicalForm(c, w, v) ==
    /\ Ask(c) /\ IsKeyword(w)
    /\ forms' = [forms EXCEPT ![v] = [owner |-> w, manual |-> TRUE]]
    /\ ThenSync(c, {})
    /\ UNCHANGED <<words, stops, prefs, serving, typed>>

MoveCanonicalForm(c, w, v) ==
    /\ Ask(c) /\ IsKeyword(w) /\ forms[v] # NoForm
    /\ forms' = [forms EXCEPT ![v] = [owner |-> w, manual |-> TRUE]]
    /\ Do(c, Job("tidy", {w}))
    /\ UNCHANGED <<words, stops, prefs, serving, typed>>

\* Every other keyword without a form goes.
TidyKeywords(c) ==
    /\ desk[c].step = "tidy"
    /\ words' = [w \in Values |-> IF w \in desk[c].todo \/ \E v \in Values : forms[v].owner = w
                                  THEN words[w] ELSE NoWord]
    /\ ThenSync(c, {})
    /\ UNCHANGED <<forms, stops, prefs, serving, asked, typed>>

\* The form becomes a keyword of its own, neutral unless it was one before.
RemoveCanonicalForm(c, w, v) ==
    /\ Ask(c) /\ IsKeyword(w) /\ forms[v].owner = w
    /\ words' = IF IsKeyword(v) THEN words ELSE [words EXCEPT ![v] = [class |-> "neutral", active |-> FALSE]]
    /\ forms' = [forms EXCEPT ![v] = [owner |-> v, manual |-> TRUE]]
    /\ Do(c, Job("detached", {v}))
    /\ UNCHANGED <<stops, prefs, serving, typed>>

\* The answer is looked for among the neutral keywords; without one the call
\* fails, and nothing is synchronised.
FindDetached(c) ==
    /\ desk[c].step = "detached"
    /\ IF desk[c].todo \subseteq Identifiers(ListCanonical("neutral")) THEN ThenSync(c, {})
       ELSE Do(c, NothingToDo)
    /\ UNCHANGED <<tables, prefs, serving, asked, typed>>

\* An import sets the class of a keyword and places its forms.
BulkImportCanonical(w, fs, class) ==
    /\ words' = [words EXCEPT ![w] = [class |-> class, active |-> @.active /\ class = "positive"]]
    /\ forms' = [v \in Values |-> IF v \in fs THEN [owner |-> w, manual |-> TRUE] ELSE forms[v]]

\* What is accepted of an import, and its class; nothing is synchronised.
BulkImport(c, w, fs, class) ==
    /\ Ask(c) /\ class # "neutral"
    /\ BulkImportCanonical(w, fs, class)
    /\ UNCHANGED <<stops, prefs, serving, desk, typed>>

WithServiceWord(v, add) == IF add THEN stops \cup {v} ELSE stops \ {v}

ServiceWord(c, v, add) ==
    /\ Ask(c)
    /\ stops' = WithServiceWord(v, add)
    /\ UNCHANGED <<words, forms, prefs, serving, desk, typed>>

-----------------------------------------------------------------------------
(* Deleting one keyword, a live trigger, or a class *)

\* rowsBefore: the rows about to go, with their forms.
DeleteCanonicalKeyword(c, w, forceDrop) ==
    /\ Ask(c)
    /\ Do(c, [Job(IF forceDrop THEN "delete" ELSE "own", {w})
                EXCEPT !.rows = {r \in AllRows : r.word = w}])
    /\ UNCHANGED <<tables, prefs, serving, typed>>

ClearCanonicalKeywords(c, class) ==
    /\ Ask(c)
    /\ Do(c, [Job("own", {class}) EXCEPT !.rows = ListCanonical(class)])
    /\ UNCHANGED <<tables, prefs, serving, typed>>

\* canonicalOwnedRows: only what is or was a trigger is taken from the typed keywords.
LoadOwned(c) ==
    /\ desk[c].step = "own"
    /\ Do(c, [desk[c] EXCEPT !.step = "delete", !.rows = {r \in @ : r.active \/ r.word \in prefs.owned}])
    /\ UNCHANGED <<tables, prefs, serving, asked, typed>>

\* The forms go with their keyword.
Remove(gone) ==
    /\ words' = [w \in Values |-> IF w \in gone THEN NoWord ELSE words[w]]
    /\ forms' = [v \in Values |-> IF forms[v].owner \in gone THEN NoForm ELSE forms[v]]

DeleteCanonical(c) ==
    /\ desk[c].step = "delete"
    /\ Remove({w \in Values : w \in desk[c].todo \/ words[w].class \in desk[c].todo})
    /\ ThenSync(c, canonicalValues(desk[c].rows))
    /\ UNCHANGED <<stops, prefs, serving, asked, typed>>

-----------------------------------------------------------------------------
(* SaveKeywordSettings *)

\* canonicalTriggerSelection: the positive keywords among those requested.
SaveKeywordSettings(c, requested) ==
    /\ Ask(c)
    /\ Do(c, [Job("store", requested)
                EXCEPT !.was = requested \cap Identifiers(ListCanonical("positive"))])
    /\ UNCHANGED <<tables, prefs, serving, typed>>

StoreRequested(c) ==
    /\ desk[c].step = "store"
    /\ prefs' = [keywords |-> desk[c].todo, owned |-> desk[c].was]
    /\ typed' = typed \cup desk[c].todo
    /\ Do(c, [desk[c] EXCEPT !.step = "reconcile"])
    /\ UNCHANGED <<tables, serving, asked>>

\* reconcileCanonicalTriggerSelection: the keywords whose trigger has to change.
ReconcileSelection(c) ==
    LET differ == {r \in ListCanonical("positive") : r.active # (r.word \in desk[c].todo)}
    IN  /\ desk[c].step = "reconcile"
        /\ Do(c, [desk[c] EXCEPT !.step = "switch", !.rows = differ])
        /\ UNCHANGED <<tables, prefs, serving, asked, typed>>

\* One keyword after the other; one that is no longer positive ends the call.
SwitchTrigger(c, r) ==
    /\ desk[c].step = "switch" /\ r \in desk[c].rows
    /\ \/ /\ SetCanonicalTrigger(r.word, ~r.active)
          /\ Do(c, [desk[c] EXCEPT !.rows = @ \ {r}])
       \/ /\ ~CanBeTrigger(r.word)
          /\ Do(c, NothingToDo) /\ UNCHANGED words
    /\ UNCHANGED <<forms, stops, prefs, serving, asked, typed>>

Reconciled(c) ==
    /\ desk[c].step = "switch" /\ desk[c].rows = {}
    /\ ThenSync(c, {})
    /\ UNCHANGED <<tables, prefs, serving, asked, typed>>

-----------------------------------------------------------------------------
(* syncCanonicalTriggers *)

NextClass == [neutral |-> "positive", positive |-> "negative", negative |-> "load"]

\* listCanonicalKeywords: one query per class.
ListRows(c) ==
    LET class == desk[c].step
    IN  /\ class \in Classes
        /\ Do(c, [desk[c] EXCEPT !.step = NextClass[class], !.rows = @ \cup ListCanonical(class)])
        /\ UNCHANGED <<tables, prefs, serving, asked, typed>>

LoadSettings(c) ==
    /\ desk[c].step = "load"
    /\ Do(c, [desk[c] EXCEPT !.step = "save", !.was = prefs])
    /\ UNCHANGED <<tables, prefs, serving, asked, typed>>

SaveSettings(c) ==
    LET d == desk[c]
    IN  /\ d.step = "save"
        /\ prefs' = Merged(d.rows, d.was, d.dropped)
        /\ Do(c, [d EXCEPT !.step = "update"])
        /\ UNCHANGED <<tables, serving, asked, typed>>

UpdateIfChanged(c) ==
    LET d == desk[c]
    IN  /\ d.step = "update"
        /\ serving' = IF Merged(d.rows, d.was, d.dropped) = d.was THEN serving
                   ELSE Configured(d.rows, d.was, d.dropped)
        /\ Do(c, NothingToDo)
        /\ UNCHANGED <<tables, prefs, asked, typed>>
UpdateRuntime(c) ==
    LET d == desk[c]
    IN  /\ d.step = "update"
        /\ serving' = Configured(d.rows, d.was, d.dropped)
        /\ Do(c, NothingToDo)
        /\ UNCHANGED <<tables, prefs, asked, typed>>

-----------------------------------------------------------------------------
(* The analysis of a collection cycle *)

loadServiceWords ==
    /\ desk[Cycle] = NothingToDo
    /\ Do(Cycle, [Job("extract", {}) EXCEPT !.was = stops])
    /\ UNCHANGED <<tables, prefs, serving, asked, typed>>

\* The forms that occur in the stored texts, under their canonical form.
ExtractCanonicalWords(texts) ==
    {[word |-> w, seen |-> {v \in texts : Lemma[v] = w}] : w \in {Lemma[v] : v \in texts}}
matchesServiceWord(word, seen, service) == (seen \cup {word}) \cap service # {}

\* Analyze: the words found, without those that match a service word.
Analyze(texts) ==
    LET kept == {x \in ExtractCanonicalWords(texts) : ~matchesServiceWord(x.word, x.seen, desk[Cycle].was)}
    IN  /\ desk[Cycle].step = "extract"
        /\ Do(Cycle, [desk[Cycle] EXCEPT !.step = "search",
                        !.found = UNION {{x.word} \X x.seen : x \in kept}])
        /\ UNCHANGED <<tables, prefs, serving, asked, typed>>

\* deletePersistedServiceWords: one search, then one deletion per match.
SearchServiceWords ==
    /\ desk[Cycle].step = "search"
    /\ Do(Cycle, [desk[Cycle] EXCEPT !.step = "purge",
                    !.todo = Identifiers({r \in AllRows : matchesServiceWord(r.word, r.values, desk[Cycle].was)})])
    /\ UNCHANGED <<tables, prefs, serving, asked, typed>>

DeleteServiceKeyword(w) ==
    /\ desk[Cycle].step = "purge" /\ w \in desk[Cycle].todo
    /\ Remove({w})
    /\ Do(Cycle, [desk[Cycle] EXCEPT !.todo = @ \ {w}])
    /\ UNCHANGED <<stops, prefs, serving, asked, typed>>

\* One transaction: new keywords are neutral, and a form the user placed stays.
SyncCanonical ==
    LET found == desk[Cycle].found
    IN  /\ desk[Cycle].step = "purge" /\ desk[Cycle].todo = {}
        /\ words' = [w \in Values |-> IF ~IsKeyword(w) /\ \E p \in found : p[1] = w
                                      THEN [class |-> "neutral", active |-> FALSE] ELSE words[w]]
        /\ forms' = [v \in Values |-> IF (\E p \in found : p[2] = v) /\ ~forms[v].manual
                                      THEN [owner |-> Lemma[v], manual |-> FALSE] ELSE forms[v]]
        /\ ThenSync(Cycle, {})
        /\ UNCHANGED <<stops, prefs, serving, asked, typed>>

-----------------------------------------------------------------------------
\* The process ends and starts again: a synchronisation comes before any call.
RestartKeywords ==
    /\ asked < MaxAsked /\ asked' = asked + 1
    /\ desk' = [c \in Clerks \cup {Cycle} |-> NothingToDo]
    /\ prefs' = Merged(AllRows, prefs, {})
    /\ serving' = Configured(AllRows, prefs, {})
    /\ UNCHANGED <<tables, typed>>

-----------------------------------------------------------------------------
CallStep(c) ==
    \/ TidyKeywords(c) \/ FindDetached(c) \/ LoadOwned(c) \/ DeleteCanonical(c)
    \/ StoreRequested(c) \/ ReconcileSelection(c) \/ Reconciled(c)
    \/ \E r \in desk[c].rows : SwitchTrigger(c, r)
    \/ ListRows(c) \/ LoadSettings(c) \/ SaveSettings(c) \/ UpdateRuntime(c)

AnalysisStep ==
    \/ loadServiceWords \/ \E texts \in Corpora : Analyze(texts)
    \/ SearchServiceWords \/ \E w \in Values : DeleteServiceKeyword(w)
    \/ SyncCanonical

AskStep(c) ==
    \/ \E w \in Values :
          \/ \E class \in Classes : ClassifyCanonical(c, w, class)
          \/ \E on \in BOOLEAN : SetTrigger(c, w, on) \/ ServiceWord(c, w, on)
                                   \/ DeleteCanonicalKeyword(c, w, on)
          \/ \E v \in Values : \/ AddCanonicalForm(c, w, v) \/ MoveCanonicalForm(c, w, v)
                               \/ RemoveCanonicalForm(c, w, v)
          \/ \E fs \in SUBSET Values, class \in Classes : BulkImport(c, w, fs, class)
    \/ \E class \in Classes : ClearCanonicalKeywords(c, class)
    \/ \E requested \in SUBSET Values : SaveKeywordSettings(c, requested)

KeywordsNext ==
    \/ \E c \in Clerks : AskStep(c) \/ CallStep(c)
    \/ CallStep(Cycle) \/ AnalysisStep
    \/ RestartKeywords

\* A call goes on once it has begun, and cycles keep coming while collection is on.
KeywordsFairness ==
    /\ \A c \in Clerks : WF_keywordVars(CallStep(c))
    /\ WF_keywordVars(CallStep(Cycle) \/ AnalysisStep)

KeywordsSpec == KeywordsInit /\ [][KeywordsNext]_keywordVars /\ KeywordsFairness

-----------------------------------------------------------------------------
(* Properties *)

KeywordsTypeOK ==
    /\ words \in [Values -> [class : Classes \cup {"none"}, active : BOOLEAN]]
    /\ forms \in [Values -> [owner : Values \cup {Nobody}, manual : BOOLEAN]]
    /\ prefs.keywords \subseteq Values /\ prefs.owned \subseteq Values

\* Nothing but a positive keyword is a trigger, and no form outlives its
\* keyword, although a selection is read before it is applied and the classes
\* change meanwhile.
TriggersArePositive ==
    /\ \A w \in Values : words[w].active => words[w].class = "positive"
    /\ \A v \in Values : forms[v] # NoForm => IsKeyword(forms[v].owner)

\* A trigger that was switched off, reclassified or deleted does not live on as
\* a keyword of its own: beyond the triggers the settings record there are only
\* keywords the user saved, whichever calls overwrote each other's settings.
OnlyTypedRemains ==
    /\ prefs.keywords \subseteq typed \cup prefs.owned
    /\ serving.keywords \subseteq typed \cup UNION {t[2] : t \in serving.triggers}

\* The type, the rule of triggers and forms, and what the runtime and the
\* settings hold of a trigger that is gone.
KeywordsInv == KeywordsTypeOK /\ TriggersArePositive /\ OnlyTypedRemains

\* Calls that raced can leave the configuration behind the tables; while
\* collection is on it catches up for good, and service words leave the tables.
KeywordsSettle ==
    <>[](/\ serving.triggers = {<<r.word, r.values>> : r \in Active(AllRows)}
         /\ \A r \in AllRows : r.word \notin stops)
=============================================================================
