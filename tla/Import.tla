------------------------------- MODULE Import -------------------------------
(***************************************************************************)
(* The import of an interview, the one pipeline that the repository wires  *)
(* (youtube/pipeline.py): FetchVideoTransformer, TranscriptSegmenter and   *)
(* SaveRawData.  It may be run again, after the author has edited the      *)
(* description or after YouTube refused the transcript.                    *)
(***************************************************************************)
EXTENDS Integers, Sequences, FiniteSets

CONSTANTS
  Descriptions,   \* the chapter lists the author may give: start times
  Transcript      \* the subtitles, which are in order, by their start times

ConstantsOK == Descriptions \subseteq Seq(Int) /\ Transcript \subseteq Int

VARIABLE sections \* the sections rows by position: the chapter list a row was
                  \* cut by, and the subtitles in its raw_content

Init == sections = <<>>

\* chapter_dict has one key for each start time, in order of appearance.
Keys(starts) ==
  LET first == {i \in DOMAIN starts : \A j \in DOMAIN starts : j < i => starts[j] # starts[i]}
  IN  [n \in 1 .. Cardinality(first) |->
         starts[CHOOSE i \in first : Cardinality({j \in first : j < i}) = n - 1]]

\* mutant: the chapters are not searched from the last to the first
FirstBegun(t, starts) ==
  LET begun == {i \in DOMAIN starts : starts[i] <= t}
  IN  {starts[i] : i \in {j \in begun : \A k \in begun : j <= k}}

\* The key of a subtitle: the last listed chapter that has begun, if one has.
KeyOf(t, starts) ==
  LET begun == {i \in DOMAIN starts : starts[i] <= t}
  IN  {starts[i] : i \in {j \in begun : \A k \in begun : k <= j}}

\* TranscriptSegmenter.run: chapters and keys are paired up by zip.
Segmented(starts, subs) ==
  LET keys == Keys(starts)
  IN  [i \in DOMAIN keys |-> {t \in subs : keys[i] \in KeyOf(t, starts)}]

\* insert_bulk_section: a row whose id is taken stays as it is.
Saved(text, starts) ==
  [i \in DOMAIN sections \union DOMAIN text |->
     IF i \in DOMAIN sections THEN sections[i]
     ELSE [cut |-> starts, text |-> text[i]]]

\* A transcript that cannot be fetched counts as an empty one.
Fetched == {Transcript, {}}

\* mutant: zip decides how many sections there are
AnyLength(text, starts) == TRUE

\* SectionMapper refuses a document with fewer sections than chapters.
Accepted(text, starts) == Len(text) = Len(starts)

\* One import; nothing is visible before the commit, which is the only one.
ImportVideo ==
  \E starts \in Descriptions, subs \in Fetched :
    LET text == Segmented(starts, subs)
    IN  /\ Accepted(text, starts)
        /\ sections' = Saved(text, starts)

Spec == Init /\ [][ImportVideo]_sections

Increasing(starts) == \A i, j \in DOMAIN starts : i < j => starts[i] < starts[j]

\* A section cut from a transcript holds exactly the subtitles between its
\* start and the next chapter's, if chapters are listed in order.
\* (TranscriptSegmenter, SectionMapper, insert_bulk_section)
SectionsHoldTheirTime ==
  \A i \in DOMAIN sections :
    LET cut == sections[i].cut
    IN  Increasing(cut) =>
          sections[i].text \in
            {{}, {t \in Transcript : cut[i] <= t /\ (i < Len(cut) => t < cut[i + 1])}}

\* Rows of two edits meet in one table, where artifacts and chunks refer to a
\* row by its position.  From the first row that an edit has there it has all
\* of them up to its last chapter, and no subtitle is under two of them: no
\* chapter list is stored with a gap, cut short or told twice.
EditsStoredWhole ==
  \A i \in DOMAIN sections :
    LET cut == sections[i].cut
        rest == {j \in DOMAIN sections : j # i /\ sections[j].cut = cut}
    IN  /\ i \in DOMAIN cut
        /\ {j \in DOMAIN cut : j > i} \subseteq rest
        /\ \A j \in rest : sections[i].text \intersect sections[j].text = {}
=============================================================================
