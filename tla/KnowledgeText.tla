---------------------------- MODULE KnowledgeText ----------------------------
(***************************************************************************)
(* What rag-service makes of a source before it stores it: the overlapping *)
(* chunks of a document and of a web page, and the row texts of a sheet.   *)
(* Lengths are bytes, as in the code. A text is given by its sentences, a  *)
(* page by its number of words, a sheet by its matrix of cells.            *)
(***************************************************************************)
EXTENDS Integers, SequencesExt

(* Documents. A sentence is [text, len, inside]: inside are the offsets that *)
(* lie within a letter of several bytes. A piece is a part of a sentence and *)
(* a chunk a sequence of pieces, joined by single spaces.                    *)

Whole(s) == [of |-> s, from |-> 0, to |-> s.len]

\* The bytes of a window: those of its pieces, and a space between two.
windowLen(w) ==
    LET bytes[n \in 0..Len(w)] == IF n = 0 THEN 0 ELSE bytes[n - 1] + w[n].to - w[n].from
    IN  IF w = <<>> THEN 0 ELSE bytes[Len(w)] + Len(w) - 1

Fits(w, s, size) == windowLen(Append(w, Whole(s))) <= size

Flush(chunks, w) == IF w = <<>> THEN chunks ELSE Append(chunks, w)

\* A sentence longer than a chunk is cut every size bytes, wherever that is.
Slices(s, size) ==
    [i \in 1..((s.len - 1) \div size + 1) |->
        <<[of |-> s, from |-> (i - 1) * size, to |-> IF i * size > s.len THEN s.len ELSE i * size]>>]

\* Mutant: the overlap is kept whether or not there is room for the sentence.
SlideMutant(w, s, size, overlap) ==
    LET tail(k) == SubSeq(w, k + 1, Len(w))
        k == CHOOSE n \in 0..(Len(w) - 1) :
                /\ n = Len(w) - 1 \/ windowLen(tail(n)) <= overlap
                /\ \A m \in 0..(n - 1) : windowLen(tail(m)) > overlap
    IN  IF overlap = 0 THEN <<>> ELSE tail(k)

\* What is kept of a full window in front of the next sentence: its shortest
\* tail if that fits the overlap and leaves room, or nothing.
Slide(w, s, size, overlap) ==
    LET tail(k) == SubSeq(w, k + 1, Len(w))
        k == CHOOSE n \in 0..(Len(w) - 1) :
                /\ n = Len(w) - 1 \/ windowLen(tail(n)) <= overlap
                /\ \A m \in 0..(n - 1) : windowLen(tail(m)) > overlap
    IN  IF overlap = 0 \/ ~Fits(tail(k), s, size) THEN <<>> ELSE tail(k)

AddSentence(st, s, size, overlap) ==
    CASE s.len > size ->
            LET slices == Slices(s, size)
            IN  [chunks |-> Flush(st.chunks, st.window) \o Front(slices), window |-> Last(slices)]
      [] s.len <= size /\ Fits(st.window, s, size) ->
            [st EXCEPT !.window = Append(@, Whole(s))]
      [] OTHER ->
            [chunks |-> Flush(st.chunks, st.window),
             window |-> Append(Slide(st.window, s, size, overlap), Whole(s))]

\* The chunks and the window after n sentences.
Scan(text, size, overlap) ==
    LET after[n \in 0..Len(text)] ==
            IF n = 0 THEN [chunks |-> <<>>, window |-> <<>>]
            ELSE AddSentence(after[n - 1], text[n], size, overlap)
    IN  after

\* A last window that reads like the chunk before it is dropped. The code compares
\* the texts: of a sentence that repeats itself, chunk by chunk, it drops a last
\* slice that is kept here.
chunkDocText(text, size, overlap) ==
    LET end == Scan(text, size, overlap)[Len(text)]
    IN  IF end.chunks # <<>> /\ Last(end.chunks) = end.window
        THEN end.chunks ELSE Flush(end.chunks, end.window)

\* A fifth of a chunk overlaps the next one, unless that is less than 50 bytes.
chunkText(text, size) ==
    chunkDocText(text, size, IF size \div 5 < 50 THEN 0 ELSE size \div 5)

\* Does PostgreSQL take the chunk as UTF-8?
Readable(chunk) == \A i \in DOMAIN chunk : {chunk[i].from, chunk[i].to} \cap chunk[i].of.inside = {}

-----------------------------------------------------------------------------
(* Web pages: the spans of per words, each overlapping the next. *)

chunkTextWithOverlap(words, per, overlap) ==
    LET step == per - overlap
        n == IF words <= per THEN 1 ELSE (words - per + step - 1) \div step + 1
    IN  IF words = 0 THEN <<>>
        ELSE [i \in 1..n |-> [from |-> (i - 1) * step,
                              to |-> IF (i - 1) * step + per > words THEN words
                                     ELSE (i - 1) * step + per]]

-----------------------------------------------------------------------------
(* Sheets. A cell is a trimmed string; a word looks like a header: it has a *)
(* letter and 3 to 50 characters. Column types are computed by the code and *)
(* used for nothing.                                                        *)

Words == {"name", "price", "city", "tea", "nut", "fig", "oil"}
Signs == {"#"}      \* nothing of it is left in a key

\* What s holds at the positions kept, in their order.
Kept(s, keep) ==
    LET upto[n \in 0..Len(s)] ==
            IF n = 0 THEN <<>>
            ELSE IF n \in keep THEN Append(upto[n - 1], s[n]) ELSE upto[n - 1]
    IN  upto[Len(s)]

cleanTableData(m) == Kept(m, {r \in DOMAIN m : \E c \in DOMAIN m[r] : m[r][c] # ""})

Width(m) == Max({Len(m[r]) : r \in DOMAIN m})

transposeMatrix(m) ==
    [c \in 1..Width(m) |-> [r \in DOMAIN m |-> IF c <= Len(m[r]) THEN m[r][c] ELSE ""]]

Variety(cells) == Cardinality({cells[i] : i \in DOMAIN cells} \ {""})

\* More distinct values in the first row than in the first column, both as a
\* share of their length, unless the shape alone decides.
detectDataOrientation(m) ==
    LET rows == Len(m)
        cols == Len(m[1])
        column == [r \in DOMAIN m |-> IF m[r] = <<>> THEN "" ELSE m[r][1]]
    IN  CASE 2 * rows > 3 * cols -> "rows"
          [] 2 * rows <= 3 * cols /\ cols > 2 * rows -> "columns"
          [] OTHER -> IF Variety(m[1]) * rows > Variety(column) * cols THEN "rows" ELSE "columns"

\* The first of the first eight rows with the most words.
findHeaderRow(m) ==
    LET words(r) == Cardinality({c \in DOMAIN m[r] : m[r][c] \in Words})
        first == 1..(IF Len(m) < 8 THEN Len(m) ELSE 8)
    IN  CHOOSE r \in first : /\ \A q \in first : words(q) <= words(r)
                             /\ \A q \in 1..(r - 1) : words(q) < words(r)

Column == "column_"

generateSmartKeys(headers) ==
    [i \in DOMAIN headers |-> IF headers[i] \in Signs \cup {""} THEN <<Column, i>> ELSE <<headers[i]>>]

Oriented(sheet) ==
    LET m == cleanTableData(sheet)
    IN  IF m # <<>> /\ detectDataOrientation(m) = "columns" THEN transposeMatrix(m) ELSE m

\* The text of a row: the cells under a header, each with its key.
RowText(row, keys) ==
    LET cells == [c \in DOMAIN row \cap DOMAIN keys |-> [key |-> keys[c], val |-> row[c]]]
    IN  Kept(cells, {c \in DOMAIN cells : row[c] # ""})

parseTableWithSmartAnalysis(sheet) ==
    LET m == Oriented(sheet)
        h == findHeaderRow(m)
        rowTexts == [r \in 1..(Len(m) - h) |-> RowText(m[h + r], generateSmartKeys(m[h]))]
    IN  IF m = <<>> THEN <<>> ELSE Kept(rowTexts, {r \in DOMAIN rowTexts : rowTexts[r] # <<>>})

-----------------------------------------------------------------------------
(* What each of them owes its source. *)

Places(seqs) == UNION {{i} \X DOMAIN seqs[i] : i \in DOMAIN seqs}
Before(x, y) == x[1] < y[1] \/ (x[1] = y[1] /\ x[2] <= y[2])

\* No chunk is longer than asked for, every byte of every sentence is in one,
\* and sentences are in their order - but for a text whose end repeats, whose
\* last chunk may have been dropped.
ChunksCover(chunks, text, size) ==
    LET piece(x) == chunks[x[1]][x[2]]
    IN  /\ \A i \in DOMAIN chunks : windowLen(chunks[i]) <= size
        /\ \A i \in DOMAIN text :
              \A b \in {0, text[i].len - 1} \cup text[i].inside :
                 \E x \in Places(chunks) : /\ piece(x).of = text[i]
                                          /\ piece(x).from <= b /\ b < piece(x).to
        /\ (\A i \in 1..(Len(text) - 1) : text[i] # text[Len(text)]) =>
              \A i, j \in DOMAIN text : i < j =>
                 \E x, y \in Places(chunks) :
                    Before(x, y) /\ piece(x).of = text[i] /\ piece(y).of = text[j]

SpansCover(spans, words) ==
    /\ words > 0 => spans # <<>> /\ spans[1].from = 0 /\ Last(spans).to = words
    /\ \A i \in 1..(Len(spans) - 1) : spans[i + 1].from < spans[i].to /\ spans[i].to < spans[i + 1].to

Cells(m) == {x \in Places(m) : m[x[1]][x[2]] # ""}

\* Every cell of a sheet is under its key in one row text, or in the row taken for
\* the header, above it, or beyond its width.
RowsCover(texts, sheet) ==
    LET m == Oriented(sheet)
        h == findHeaderRow(m)
        under == {x \in Cells(m) : x[1] > h /\ x[2] <= Len(m[h])}
    IN  /\ Cardinality(Cells(m)) = Cardinality(Cells(sheet))
        /\ Cardinality(Places(texts)) = Cardinality(under)
        /\ \A x \in under : \E y \in Places(texts) :
              texts[y[1]][y[2]] = [key |-> generateSmartKeys(m[h])[x[2]], val |-> m[x[1]][x[2]]]
=============================================================================
