----------------------------- MODULE MCKnowledge -----------------------------
(***************************************************************************)
(* Instances of Knowledge: three requests around one source, or one around *)
(* every small content; two syncs and two callbacks around the connection  *)
(* to Google.                                                              *)
(***************************************************************************)
EXTENDS Knowledge

CONSTANTS j1, j2, d1, p1, s1, q1, n1, n2, a, b, k1, k2, g1, g2

MCJobs == {j1, j2}
MCDocs == {d1}
MCPages == {p1}
MCSheets == {s1}
MCQuestions == {q1}
MCNamespaces == {n1, n2}
MCNames == {a, b}
MCCallbacks == {k1, k2}
MCStates == {g1, g2}

\* Sentences around the limits of 250 and 512 bytes and of an overlap of 50:
\* short ones, of equal text or not, some that need two or three chunks, one of
\* them of letters of two bytes behind a space.
S(t, len) == [text |-> t, len |-> len, inside |-> {}]
Cyrillic == [text |-> "c", len |-> 600, inside |-> {2 * i : i \in 1..299}]
MCSentences == {S("a", 1), S("b", 30), S("c", 130), S("e", 250), S("f", 510),
              S("g", 760), Cyrillic}

\* A text that repeats itself, chunk by chunk, where nothing overlaps.
Repeated == <<S("b", 30), S("c", 130), S("b", 30), S("c", 130)>>
MCContents == UNION {[1..n -> MCSentences] : n \in 0..3} \cup {Repeated}
Few == {[text |-> <<S("c", 130), S("e", 250)>>, size |-> 250],
        [text |-> <<Cyrillic, S("a", 1)>>, size |-> 250]}

\* Matrices: by rows and by columns, with a title row, ragged, with an empty
\* cell, a header without letters, a repeated header, and one without data; and
\* what a read that broke off left of the first.
Price == <<<<"name", "price">>, <<"tea", "5">>, <<"nut", "7">>>>
Long == <<<<"name", "price">>, <<"tea", "5">>, <<"nut", "">>, <<"fig", "9">>>>
Wide == <<<<"name", "tea", "nut", "fig", "oil">>, <<"price", "5", "7", "9", "4">>>>
Titled == <<<<"city">>, <<"", "">>, <<"name", "price", "#">>, <<"tea", "5", "1", "0">>,
            <<"name", "", "2">>>>
Twice == <<<<"name", "name">>, <<"tea", "nut">>>>
Cut == SubSeq(Price, 1, 2)
Short == <<<<"name", "price">>, <<"tea", "6">>>>
Bare == <<<<"name">>, <<"">>>>
MCMatrices == {Price, Cut, Short, Long, Wide, Titled, Twice, Bare, <<<<"name", "price">>>>}

MCPageWords == {0, 1, 499, 500, 501, 950, 951, 1400}

\* Bounds. The source that the requests are about:
Touched == {i \in Items : made[i] > 0 \/ \E j \in Jobs : job[j].item = i}
Busy == {j \in Jobs : job[j].pc # "idle"}
Sources(i) == {job[j].src : j \in {k \in Jobs : job[k].item = i /\ job[k].src # None}}
              \cup (IF rows[i] = None THEN {} ELSE {rows[i].src})
Quiet == (\A s \in States : states[s] = "none") /\ (\A j \in Jobs : user[j].pc = "idle")

OneNamespace == \E n \in Namespaces : namespaces[n] = "new"
Alone == Cardinality(Busy) <= 1 /\ OneNamespace

\* A sheet that changes stays in one namespace, one that moves does not change.
Small ==
    /\ upload[d1] \in Few
    /\ Sources(p1) \subseteq {500, 950}
    /\ Sources(s1) \subseteq IF OneNamespace THEN {Price, Short} ELSE {Price}

\* An instance is about one source: two requests at a time around one of a few
\* contents, or one request at a time and a second row; or a source of any
\* content that is stored once; or the connection to Google and two syncs that
\* use it. It ends where two syncs of a sheet, or two uploads of a page, overlap.
Instance ==
    /\ Cardinality(Touched) <= 1
    /\ \A i \in Items : "overlap" \notin gaps[i] /\ Cardinality(gaps[i]) <= 2 /\ made[i] <= IF Alone /\ Small THEN 2 ELSE 1
    /\ upload[d1].size = 170 <=> upload[d1].text = Repeated
    /\ upload[d1] \notin Few => Touched \subseteq {d1}
    /\ \/ Quiet /\ Small
       \/ /\ Quiet /\ Alone
          /\ \A i \in Items : gaps[i] = {}
          /\ \A i \in Pages \cup Sheets : Cardinality(Sources(i)) <= 1
          /\ \A j \in Busy : job[j].op \in {"create", "reindex", "web", "sync"}
       \/ /\ OneNamespace
          /\ \A j \in Busy : job[j].op = "sync" /\ job[j].pc \in {"ns", "fetch", "ref", "values"}
          /\ Small /\ Sources(s1) \subseteq {Price} /\ \A i \in Items : made[i] = 0

Symmetry == Permutations(MCJobs) \cup Permutations(MCNamespaces) \cup Permutations(MCNames)
            \cup Permutations(MCCallbacks) \cup Permutations(MCStates)
=============================================================================
