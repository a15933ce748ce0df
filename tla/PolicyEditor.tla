---------------------------- MODULE PolicyEditor ----------------------------
(***************************************************************************)
(* The page that edits a data-masking strategy: the table of its filters   *)
(* with the dialog that adds and edits one, and the table of its rules.     *)
(* The code is DataMaskingConfig, FilterTable, FilterForm,                  *)
(* DataMaskingRuleTable and DataMaskingRuleForm; the server is              *)
(* CheckFilters.                                                            *)
(*                                                                          *)
(* The dialog asks the server for the values of some attributes, and an     *)
(* answer may come after its user has gone on to another attribute, or has  *)
(* closed the dialog.                                                       *)
(***************************************************************************)
EXTENDS Naturals, Sequences, FiniteSets, SequencesExt

CONSTANTS
  Remotes,       \* attributes whose values the server lists
  Statics,       \* attributes with a fixed list of values
  Patterns,      \* attributes whose values are typed: "ip" is the one with many
  Items,         \* the values of an attribute
  RuleContents,  \* what a masking rule says
  MaxRules,      \* bound: rules of the strategy
  MaxReads       \* bound: requests of the dialog in progress

VARIABLES
  stored,   \* the strategy's filters and rules at the server
  open,     \* whether the editor is open
  filters,  \* the filters the page shows
  rules,    \* the rules the page shows
  dialog,   \* the dialog about a filter
  ready,    \* formCanSubmit: whether its confirmation is enabled
  asked,    \* requests for the values of an attribute
  form,     \* the dialog about a rule
  kept,     \* history: the filters that were read and have not been touched since
  settled   \* history: the rules with a key that were read and not touched since

vars == <<stored, open, filters, rules, dialog, ready, asked, form, kept, settled>>

-----------------------------------------------------------------------------
Attributes == Remotes \cup Statics \cup Patterns

Nothing  == "none"
NoKey == 0              \* of a rule
All   == <<"ALL", 0>>
Blank == <<"", 0>>      \* undefined, or nothing typed

Own(a) == {<<a, n>> : n \in Items}

Names(rows) == {f.name : f \in rows}

\* The rows that are not in gone, in their order.
Without(rows, gone) ==
  LET rest[n \in 0 .. Len(rows)] ==
        IF n = 0 THEN <<>>
        ELSE IF rows[n] \in gone THEN rest[n - 1] ELSE Append(rest[n - 1], rows[n])
  IN rest[Len(rows)]

\* The row it edits, the attribute and the values that are chosen, whether they are a
\* text, the attribute whose values are listed, and whether a list is on its way.
NoDialog == [mode |-> Nothing, row |-> Nothing, name |-> Nothing, values |-> {Blank}, text |-> FALSE,
             list |-> Nothing, loading |-> FALSE, stray |-> FALSE]

NoForm == [mode |-> Nothing, key |-> NoKey, content |-> Nothing]

\* CheckFilters, of the names and of each filter's values.
Distinct(rows) == Cardinality(Names(Range(rows))) = Len(rows)

Accepted(f) == f.values # {} /\ (f.name \in Patterns => f.values \subseteq Own(f.name))

-----------------------------------------------------------------------------
(* The page.                                                               *)

\* The filters of a strategy, which may have been written by others than this page.
Storable(a) == {f \in {[name |-> a, values |-> V, stray |-> FALSE] : V \in SUBSET (Own(a) \cup {All})} :
                  Accepted(f)}

Init ==
  /\ \E S \in SUBSET Attributes :
       \E v \in [S -> UNION {Storable(a) : a \in S}] :
         \E k \in [1 .. MaxRules -> RuleContents \X (0 .. MaxRules)] \cup {<<>>} :
           /\ \A a \in S : v[a].name = a
           /\ \A n \in DOMAIN k : k[n][2] \in {NoKey, n}
           /\ stored = [filters |-> {v[a] : a \in S},
                        rules |-> [n \in DOMAIN k |-> [content |-> k[n][1], key |-> k[n][2]]]]
  /\ open = FALSE
  /\ filters = <<>> /\ rules = <<>> /\ kept = {} /\ settled = {}
  /\ dialog = NoDialog /\ ready = FALSE /\ asked = {} /\ form = NoForm

\* Mutant: the filters that are read get no key.
Keyed_NoKey(f) == [name |-> f.name, values |-> f.values, stray |-> f.stray, key |-> Nothing]

\* getPolicyInfo gives each filter a key of its own.
Keyed(f) == [name |-> f.name, values |-> f.values, stray |-> f.stray, key |-> f.name]

\* The page opens and reads its strategy.
Open ==
  /\ ~open
  /\ open' = TRUE
  /\ filters' = SetToSeq({Keyed(f) : f \in stored.filters})
  /\ rules' = stored.rules
  /\ kept' = {[name |-> f.name, values |-> f.values] : f \in stored.filters}
  /\ settled' = {r \in Range(stored.rules) : r.key # NoKey}
  /\ UNCHANGED <<stored, dialog, ready, asked, form>>

\* What may be sent as a filter's values: of addresses the lines of the first value,
\* which is one address when the filter has been read and not been edited.
Sent(f) ==
  CASE f.name = "ip" /\ f.key # Nothing -> {{x} : x \in f.values}
    [] f.name # "ip" /\ All \in f.values -> {{All}}
    [] OTHER -> {f.values}

Sendable(f) == {[name |-> f.name, values |-> V, stray |-> f.stray] : V \in Sent(f)}

Leave ==
  /\ open' = FALSE
  /\ filters' = <<>> /\ rules' = <<>>
  /\ dialog' = NoDialog /\ ready' = FALSE /\ asked' = {} /\ form' = NoForm
  /\ UNCHANGED <<kept, settled>>

Idle == open /\ dialog.mode = Nothing /\ form.mode = Nothing

\* onFinish: the strategy is saved and the page left.
Save ==
  /\ Idle
  /\ Distinct(filters)
  /\ \E sent \in [DOMAIN filters -> UNION {Sendable(f) : f \in Range(filters)}] :
       /\ \A n \in DOMAIN filters : sent[n] \in Sendable(filters[n]) /\ Accepted(sent[n])
       /\ stored' = [filters |-> Range(sent), rules |-> rules]
  /\ Leave

\* The page is left with its button or the browser's.
Abandon == open /\ Leave /\ UNCHANGED stored

-----------------------------------------------------------------------------
(* The dialog about a filter.                                              *)

Offered == {a \in Attributes : a \notin Names(Range(filters))}
           \cup (IF dialog.mode = "edit" THEN {dialog.row.name} ELSE {})

\* getRemoteDetail.  The answer puts all values in the place of "ALL".
Ask(d, old, all) ==
  /\ Cardinality(asked) < MaxReads
  /\ dialog' = [d EXCEPT !.loading = TRUE]
  /\ asked' = old \cup {[of |-> d.name, all |-> all, open |-> TRUE, listed |-> TRUE]}

\* Requests go on when what asked for them is gone; what they wrote to the form counts.
Unlisted == {[r EXCEPT !.listed = FALSE] : r \in asked}
Orphaned == {[r EXCEPT !.listed = FALSE, !.open = FALSE] : r \in {q \in asked : q.all}}

\* StaticFormItem puts all values in the place of "ALL".
Expanded(a, V) == IF a \in Statics /\ V = {All} THEN Own(a) ELSE V

\* What the dialog shows for its attribute.
Show(d, old) ==
  IF d.name \in Remotes THEN Ask(d, old, d.values = {All})
  ELSE /\ dialog' = [d EXCEPT !.list = Nothing, !.loading = FALSE]
       /\ asked' = Unlisted

\* An attribute is proposed, unless the attributes have not been read yet.  Whether the
\* confirmation is enabled is left from the dialog before.
AddFilter ==
  /\ Idle
  /\ \E a \in Offered \cup {Nothing} :
       Show([NoDialog EXCEPT !.mode = "add", !.name = a], asked)
  /\ UNCHANGED <<stored, open, filters, rules, ready, form, kept, settled>>

\* Only a filter that was read knows that its values are to be shown as a text.
EditFilter(f) ==
  /\ Idle
  /\ Show([NoDialog EXCEPT !.mode = "edit", !.row = f, !.name = f.name,
                           !.values = Expanded(f.name, f.values), !.stray = f.stray,
                           !.text = f.name \in Patterns /\ f.key # Nothing], asked)
  /\ ready' = (f.values # {})
  /\ UNCHANGED <<stored, open, filters, rules, form, kept, settled>>

Same(a) == dialog.mode = "edit" /\ dialog.row.name = a

\* Mutant: the values stay when another attribute is chosen.
Reset_Kept(a) == IF Same(a) THEN Expanded(a, dialog.row.values) ELSE dialog.values

Reset(a) == IF Same(a) THEN Expanded(a, dialog.row.values) ELSE {Blank}

\* handleTypeChange.  The list of another attribute stays until the answer.
Choose(a) ==
  /\ dialog.mode # Nothing /\ a \in Offered \ {dialog.name}
  /\ Show([dialog EXCEPT !.name = a, !.values = Reset(a), !.text = FALSE],
          IF dialog.name \in Remotes THEN asked ELSE Unlisted)
  /\ ready' = Same(a)
  /\ UNCHANGED <<stored, open, filters, rules, form, kept, settled>>

\* The user's choice of values, which handleValuesChange looks at.
Value(V, text) ==
  /\ dialog' = [dialog EXCEPT !.values = V, !.text = text]
  /\ ready' = (V # {})
  /\ UNCHANGED <<stored, open, filters, rules, asked, form, kept, settled>>

\* An address to a line, or one path.
Type(V) ==
  /\ dialog.name \in Patterns
  /\ V \subseteq Own(dialog.name) /\ (dialog.name # "ip" => Cardinality(V) <= 1)
  /\ Value(IF V = {} THEN {Blank} ELSE V, TRUE)

Tick(V) ==
  /\ dialog.name \in Statics
  /\ V \subseteq Own(dialog.name) \/ V = Own(dialog.name) \cup {All}
  /\ Value(V, FALSE)

Pick(x) ==
  /\ dialog.name \in Remotes /\ ~dialog.loading
  /\ dialog.list # Nothing /\ x \in Own(dialog.list)
  /\ Value(IF x \in dialog.values THEN dialog.values \ {x}
           ELSE (dialog.values \ {Blank}) \cup {x}, FALSE)

\* The values are searched, with a word or without.
Search ==
  /\ dialog.name \in Remotes /\ ~dialog.loading
  /\ \E all \in {FALSE, dialog.values = {All}} : Ask(dialog, asked, all)
  /\ UNCHANGED <<stored, open, filters, rules, ready, form, kept, settled>>

\* The values come.  They are listed if the list is still there, whatever attribute it
\* is about by now, and replace the "ALL" that was in the form.
Answer(r) ==
  /\ asked' = asked \ {r}
  /\ dialog' = [dialog EXCEPT
       !.list    = IF r.listed THEN r.of ELSE @,
       !.loading = @ /\ ~r.listed,
       !.values  = IF r.all /\ r.open THEN Own(r.of) ELSE @,
       !.text    = @ /\ ~(r.all /\ r.open),
       !.stray   = @ \/ (r.of # dialog.name /\ (r.listed \/ (r.all /\ r.open)))]
  /\ ready' = (ready \/ r.all)
  /\ UNCHANGED <<stored, open, filters, rules, form, kept, settled>>

\* They do not come: the list stays as it is.
Fail(r) ==
  /\ asked' = asked \ {r}
  /\ dialog' = [dialog EXCEPT
       !.loading = @ /\ ~r.listed,
       !.stray   = @ \/ (r.listed /\ dialog.list \notin {Nothing, dialog.name})]
  /\ UNCHANGED <<stored, open, filters, rules, ready, form, kept, settled>>

Close == dialog' = NoDialog /\ asked' = Orphaned

\* handleSaveFilter.  The check of addresses takes a text only.
Confirm ==
  /\ dialog.mode # Nothing /\ ready /\ dialog.name # Nothing
  /\ dialog.name = "ip" => dialog.text \/ dialog.values = {Blank}
  /\ LET new  == [name |-> dialog.name, values |-> dialog.values, stray |-> dialog.stray,
                  key |-> Nothing]
         gone == {f \in Range(filters) : Same(f.name)}
     IN filters' = <<new>> \o Without(filters, gone)
  /\ kept' = {k \in kept : ~Same(k.name)}
  /\ Close
  /\ UNCHANGED <<stored, open, rules, ready, form, settled>>

Cancel ==
  /\ dialog.mode # Nothing
  /\ Close
  /\ UNCHANGED <<stored, open, filters, rules, ready, form, kept, settled>>

\* handleDeleteFilter: what was added on the page has no key, and goes together.
DeleteFilter(f) ==
  /\ Idle
  /\ filters' = Without(filters, {g \in Range(filters) : g.key = f.key})
  /\ kept' = {k \in kept : k.name # f.name}
  /\ UNCHANGED <<stored, open, rules, dialog, ready, asked, form, settled>>

-----------------------------------------------------------------------------
(* The dialog about a rule.                                                *)

\* What a cancelled dialog said is still in the form.
AddRule ==
  /\ Idle /\ Len(rules) < MaxRules
  /\ form' = [form EXCEPT !.mode = "add"]
  /\ UNCHANGED <<stored, open, filters, rules, dialog, ready, asked, kept, settled>>

EditRule(r) ==
  /\ Idle
  /\ form' = [mode |-> "edit", key |-> r.key, content |-> r.content]
  /\ UNCHANGED <<stored, open, filters, rules, dialog, ready, asked, kept, settled>>

WriteRule(c) ==
  /\ form.mode # Nothing
  /\ form' = [form EXCEPT !.content = c]
  /\ UNCHANGED <<stored, open, filters, rules, dialog, ready, asked, kept, settled>>

NewKey == CHOOSE n \in 1 .. MaxRules + 1 : n \notin {r.key : r \in Range(rules)}

\* Mutant: the rule to replace is found by what it says.
Replaced_BySaying(r) == r.content = form.content

Replaced(r) == r.key = form.key

\* The rules with a new one in front, in the place of the i-th.
InFront(new, i) ==
  [n \in DOMAIN rules |-> IF n = 1 THEN new ELSE IF n <= i THEN rules[n - 1] ELSE rules[n]]

\* handleSave: the first rule with the key is taken out, if there is one.
SaveRule ==
  /\ form.mode # Nothing /\ form.content # Nothing
  /\ LET new  == [content |-> form.content,
                  key |-> IF form.mode = "edit" /\ form.key # NoKey THEN form.key ELSE NewKey]
         same == {i \in DOMAIN rules : form.mode = "edit" /\ Replaced(rules[i])}
     IN rules' = IF same = {} THEN <<new>> \o rules
                 ELSE InFront(new, CHOOSE i \in same : \A j \in same : i <= j)
  /\ settled' = {r \in settled : form.mode = "add" \/ r.key # form.key}
  /\ form' = NoForm
  /\ UNCHANGED <<stored, open, filters, dialog, ready, asked, kept>>

CancelRule ==
  /\ form.mode # Nothing
  /\ form' = [form EXCEPT !.mode = Nothing, !.key = NoKey]
  /\ UNCHANGED <<stored, open, filters, rules, dialog, ready, asked, kept, settled>>

-----------------------------------------------------------------------------
Next ==
  \/ Open \/ Save \/ Abandon
  \/ AddFilter \/ Search \/ Confirm \/ Cancel
  \/ AddRule \/ SaveRule \/ CancelRule
  \/ \E f \in Range(filters) : EditFilter(f) \/ DeleteFilter(f)
  \/ \E a \in Attributes : Choose(a)
  \/ \E V \in SUBSET UNION {Own(a) \cup {All} : a \in Attributes} : Type(V) \/ Tick(V)
  \/ \E a \in Remotes : \E x \in Own(a) : Pick(x)
  \/ \E r \in asked : Answer(r) \/ Fail(r)
  \/ \E r \in Range(rules) : EditRule(r)
  \/ \E c \in RuleContents : WriteRule(c)

Spec == Init /\ [][Next]_vars

-----------------------------------------------------------------------------
\* No two filters are of one attribute, which the server would refuse, and a filter has
\* no values of another attribute, unless a list of values came after its user had gone
\* on to another attribute, or did not come at all.
FiltersFit ==
  /\ Distinct(filters)
  /\ \A f \in Range(filters) \cup stored.filters :
       f.stray \/ f.values \subseteq Own(f.name) \cup {All, Blank}

\* Whatever is added, edited and deleted, the filters that were read and not touched
\* stay as they were, on the page and when it is saved.  So do rules that have a key.
\* One kind of filter is not saved as it was read: addresses, of which one is left.
UntouchedStay ==
  IF open
  THEN /\ \A k \in kept : \E f \in Range(filters) : f.name = k.name /\ f.values = k.values
       /\ settled \subseteq Range(rules)
  ELSE /\ \A k \in kept : \E f \in stored.filters :
            /\ f.name = k.name
            /\ \/ f.values = k.values
               \/ All \in k.values /\ f.values = {All}
               \/ k.name = "ip" /\ f.values \subseteq k.values
       /\ settled \subseteq Range(stored.rules)
=============================================================================
