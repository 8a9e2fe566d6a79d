--------------------------- MODULE CheckpointFile ---------------------------
(***************************************************************************)
(* The file a committed session is written to and read back from: a header, *)
(* one section per tensor of the state in a fixed order, and a digest of    *)
(* all of it.  A section holds the rows of its tensor that the frontier     *)
(* says are in use.  The length of the file is computed from the frontier   *)
(* alone, before anything is written, and checked on both sides.            *)
(*                                                                          *)
(* Sizes are in rows; a section's header, the file's header and its trailer *)
(* take one each.  Keys and values of a row are one content.                *)
(***************************************************************************)
EXTENDS LayerGraph

CONSTANTS
    MaxFileRows,    \* the largest file this cache admits
    Scope           \* identity of package, tokenizer, producer and layout

ASSUME FileAssumption == MaxFileRows \in Nat /\ Scope # "other"

\* spans: the physical rows of the sink and of the ring that were ever written,
\* which is every row once the ring has wrapped.
SavedRows(f) ==
    [sink |-> Min({f, Sink}), ring |-> Min({IF f > Sink THEN f - Sink ELSE 0, Ring})]

GdnKinds == <<"conv", "recurrent">>
QsaKinds == <<"compressed", "pending", "records", "sink", "ring">>

\* Type and layer of every section, in the order of the file.
SectionOrder ==
    << <<"tokens", 0>>, <<"logits", 0>>, <<"ple", 0>> >>
    \o FlattenSeq([l \in 1..Layers |->
           LET kinds == IF l \in QsaLayers THEN QsaKinds ELSE GdnKinds
           IN  [i \in DOMAIN kinds |-> <<kinds[i], l>>]])

\* Rows of a section's payload at frontier f, as its reader and writer count them.
SectionRows(kind, f) ==
    CASE kind = "tokens" -> f
      [] kind = "compressed" -> Groups(f)
      [] kind = "pending" -> f % Ratio
      [] kind = "records" -> Records(f)
      [] kind = "sink" -> SavedRows(f).sink
      [] kind = "ring" -> SavedRows(f).ring
      [] OTHER -> 1

\* expected_layout: length and number of sections of a file at frontier f.
ExpectedLayout(f) ==
    LET rows == SavedRows(f)
        qsa == Groups(f) + (f % Ratio) + Records(f) + rows.sink + rows.ring
        sections == 3 + 2 * Cardinality(GdnLayers) + Len(QsaKinds) * Cardinality(QsaLayers)
    IN  [sections |-> sections,
         rows |-> 1 + sections + (f + 2 + 2 * Cardinality(GdnLayers) + qsa * Cardinality(QsaLayers)) + 1]

\* The i-th row of a section, by the name the session gives that part.
PartOf(kind, layer, i) ==
    CASE kind = "compressed" -> GroupSlot(layer, 0, i)
      [] kind = "pending" -> PendingSlot(layer, i)
      [] kind = "records" -> Record(layer, 0, i)
      [] kind = "sink" -> SinkSlot(layer, i)
      [] kind = "ring" -> RingSlot(layer, Sink + i)
      [] OTHER -> <<kind, layer>>

Header(log) ==
    LET layout == ExpectedLayout(Len(log))
    IN  [scope |-> Scope, prefix |-> log, frontier |-> Len(log), rows |-> layout.rows,
         sections |-> layout.sections, context |-> MaxContext]

Token(id) == Held("token", id, << >>)

\* A section as write_buffer leaves it: its header names its length.
WriteSection(at, log, parts) ==
    LET n == SectionRows(at[1], Len(log))
    IN  [kind |-> at[1], layer |-> at[2], length |-> n,
         rows |-> [i \in 1..n |-> IF at[1] = "tokens" THEN Token(log[i]) ELSE parts[PartOf(at[1], at[2], i - 1)]]]

SumRows(body) == FoldSeq(LAMBDA s, sum : sum + 1 + Len(s.rows), 0, body)
FileRows(file) == 1 + SumRows(file.body) + Len(file.trailer)

\* write_session: header, sections, then the digest of both.
WriteFile(log, parts) ==
    LET body == [i \in DOMAIN SectionOrder |-> WriteSection(SectionOrder[i], log, parts)]
    IN  [header |-> Header(log), body |-> body, trailer |-> << <<Header(log), body>> >>]

\* write_session's last check: as many rows as the layout promised.
WrittenAsPlanned(file) == 1 + SumRows(file.body) = file.header.rows - 1

GeometryHolds(file) ==
    LET layout == ExpectedLayout(file.header.frontier)
    IN  /\ file.header.frontier \in 1..MaxContext
        /\ file.header.rows = layout.rows /\ FileRows(file) = layout.rows
        /\ file.header.sections = layout.sections
        /\ file.header.context >= file.header.frontier

\* The prefix asked for is the file's.
PrefixHolds(file, requested) ==
    /\ Len(requested) >= file.header.frontier
    /\ file.header.prefix = SubSeq(requested, 1, file.header.frontier)

\* Each section is the one its reader expects there, of the length it computes.
SectionsHold(file, requested) ==
    /\ Len(file.body) = Len(SectionOrder)
    /\ \A i \in DOMAIN file.body :
          LET s == file.body[i]
          IN  /\ <<s.kind, s.layer>> = SectionOrder[i]
              /\ s.length = SectionRows(s.kind, file.header.frontier)
    /\ file.body[1].rows = [k \in 1..file.header.frontier |-> Token(requested[k])]

\* HashReader::finish: the digest of what was read, and nothing behind it.
DigestHolds(file) == file.trailer = << <<file.header, file.body>> >>

\* read_session: "none" is a file for another prompt or package, "invalid" one
\* to be removed.
Admitted(file) == FileRows(file) \in 2..MaxFileRows
ReadFile(file, requested) ==
    CASE ~Admitted(file) -> "invalid"
      [] Admitted(file) /\ file.header.scope # Scope -> "none"
      [] Admitted(file) /\ file.header.scope = Scope /\ ~GeometryHolds(file) -> "invalid"
      [] Admitted(file) /\ file.header.scope = Scope /\ GeometryHolds(file)
         /\ ~PrefixHolds(file, requested) -> "none"
      [] OTHER -> IF SectionsHold(file, requested) /\ DigestHolds(file) THEN "session" ELSE "invalid"

\* What the file holds, by part; what it does not hold is zero in a new buffer.
FileParts(file) ==
    LET at(i, k) == PartOf(file.body[i].kind, file.body[i].layer, k - 1)
        held == {<<i, k>> \in UNION {{i} \X DOMAIN file.body[i].rows : i \in 2..Len(file.body)} : TRUE}
    IN  [n \in {at(x[1], x[2]) : x \in held} |->
            LET x == CHOOSE y \in held : at(y[1], y[2]) = n IN file.body[x[1]].rows[x[2]]]

----------------------------------------------------------------------------
(* What the disk may hand back instead.                                    *)

\* A row of one section reads differently.
Flipped(file) ==
    {[file EXCEPT !.body[i].rows[Len(file.body[i].rows)] = Garbage] :
        i \in {j \in DOMAIN file.body : file.body[j].rows # << >>}}

\* The end of the file is missing, or something follows it.
Cut(file) == [file EXCEPT !.trailer = << >>]
Longer(file) == [file EXCEPT !.trailer = Append(@, Garbage)]

\* A sound file of another package: its numbers mean nothing here.
Foreign(file) ==
    LET header == [file.header EXCEPT !.scope = "other"]
        body == [i \in DOMAIN file.body |->
                    IF i = 1 THEN file.body[1]
                    ELSE [file.body[i] EXCEPT !.rows = [k \in DOMAIN @ |-> Garbage]]]
    IN  [header |-> header, body |-> body, trailer |-> << <<header, body>> >>]

Damaged(file) == Flipped(file) \cup {Cut(file), Longer(file), Foreign(file)}
=============================================================================
