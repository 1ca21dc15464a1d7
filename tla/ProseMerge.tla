----------------------------- MODULE ProseMerge -----------------------------
(***************************************************************************)
(* core/merge/three_way.py: the three-way merge of a prose document.  Two  *)
(* writers start from the base version and edit their own side; the merge  *)
(* engine is a function of the three versions, so what it promises is an   *)
(* invariant over every state the writers can reach.  Of the two sides the *)
(* engine uses the sentences only: the merged text has the base's          *)
(* paragraphs.                                                             *)
(***************************************************************************)
EXTENDS ProseAlign

CONSTANTS MaxBase, MaxSide, MaxSides  \* bounds on the sentences of the base, of a
                                      \* side and of both sides together

ASSUME BoundAssumption == {MaxBase, MaxSide, MaxSides} \subseteq Nat /\ MaxBase <= MaxSide

VARIABLES
    base,    \* the merge base: a document
    ours,    \* the sentences of our side
    theirs   \* the sentences of their side

proseVars == <<base, ours, theirs>>

Side == SeqOf(Sentence, MaxSide)

\* align() of every two versions within the bounds.
Alignment == [old \in Side |-> [new \in Side |-> Align(old, new)]]

-----------------------------------------------------------------------------
(* The engine.  Base sentences are numbered 1..n; gap a lies before base   *)
(* sentence a, gap n + 1 at the end.  A sid is such a number: base_flat    *)
(* maps it to "paragraph:sentence", n + 1 to "end".                        *)

\* _side_ops: each base sentence's op, and the new sentences of each gap.
Change(ops, a) == CHOOSE op \in ToSet(ops) : op.old = a

Anchored(ops, side, anchor, a) ==
    FlattenSeq([k \in DOMAIN ops |->
        IF ops[k].type = "insert" /\ anchor[k] = a THEN <<side[ops[k].new]>> ELSE <<>>])

\* Mutant of Inserted: the anchor is the new sentence's own position.
InsertedHere(ops, side, a) == Anchored(ops, side, [k \in DOMAIN ops |-> ops[k].new], a)

\* An insert is anchored after the base sentences seen before it.
Inserted(ops, side, a) ==
    Anchored(ops, side,
             [k \in DOMAIN ops |-> Cardinality({m \in 1..k : ops[m].old # 0}) + 1], a)

\* Output slots: a sentence, or the marker block of a conflict.
Plain(s) == [kind |-> "text", text |-> s]
Marker(sid, o, t) == [kind |-> "conflict", sid |-> sid, ours |-> o, theirs |-> t]

\* Both sides inserted in one gap: a conflict, whatever they inserted.
GapSlots(a, o, t) ==
    IF o # <<>> /\ t # <<>> THEN <<Marker(a, o, t)>>
    ELSE [k \in DOMAIN (o \o t) |-> Plain((o \o t)[k])]

\* Mutant of BaseSlots: their deletion wins over our edit.
BaseSlotsDropping(a, text, o, t) ==
    CASE o.type = "equal" /\ t.type = "equal" -> <<Plain(text)>>
      [] o.type # "equal" /\ t.type = "equal" -> [k \in DOMAIN o.text |-> Plain(o.text[k])]
      [] o.type = "equal" /\ t.type # "equal" -> [k \in DOMAIN t.text |-> Plain(t.text[k])]
      [] o.type # "equal" /\ t.type # "equal" ->
            IF o.text = t.text \/ t.text = <<>> THEN [k \in DOMAIN t.text |-> Plain(t.text[k])]
            ELSE <<Marker(a, o.text, t.text)>>

\* The decision table for base sentence a; a side's text is <<>> if it deleted it.
BaseSlots(a, text, o, t) ==
    CASE o.type = "equal" /\ t.type = "equal" -> <<Plain(text)>>
      [] o.type # "equal" /\ t.type = "equal" -> [k \in DOMAIN o.text |-> Plain(o.text[k])]
      [] o.type = "equal" /\ t.type # "equal" -> [k \in DOMAIN t.text |-> Plain(t.text[k])]
      [] o.type # "equal" /\ t.type # "equal" ->
            IF o.text = t.text THEN [k \in DOMAIN o.text |-> Plain(o.text[k])]
            ELSE <<Marker(a, o.text, t.text)>>

SideChange(ops, side, a) ==
    LET op == Change(ops, a) IN
    [type |-> op.type, text |-> IF op.type = "delete" THEN <<>> ELSE <<side[op.new]>>]

\* What the two sides make of base sentence a and the gap before it.
SlotsAt(flat, o, opsO, t, opsT, a) ==
    GapSlots(a, Inserted(opsO, o, a), Inserted(opsT, t, a)) \o
        IF a > Len(flat) THEN <<>>
        ELSE BaseSlots(a, flat[a].text, SideChange(opsO, o, a), SideChange(opsT, t, a))

Placed(para, slots) == [k \in DOMAIN slots |-> [para |-> para, slot |-> slots[k]]]

SlotsOf(flat, o, opsO, t, opsT) ==
    LET n == Len(flat)
        para(a) == IF a <= n THEN flat[a].para ELSE IF n > 0 THEN flat[n].para ELSE 1 IN
    FlattenSeq([a \in 1..n + 1 |-> Placed(para(a), SlotsAt(flat, o, opsO, t, opsT, a))])

\* merge_prose: the slots in order, each with the paragraph it joins.
Slots(b, o, t) ==
    SlotsOf(Flat(b), o, Alignment[Texts(Flat(b))][o], t, Alignment[Texts(Flat(b))][t])

\* merged_text: paragraphs in base order, those without a slot left out.
Paragraphs(slots) ==
    LET used == SetToSortSeq({slots[k].para : k \in DOMAIN slots}, <)
        within(p) == SelectSeq(slots, LAMBDA s : s.para = p) IN
    [p \in DOMAIN used |-> [k \in DOMAIN within(used[p]) |-> within(used[p])[k].slot]]

Conflicts(slots) ==
    FlattenSeq([k \in DOMAIN slots |->
        IF slots[k].slot.kind = "conflict" THEN <<slots[k]>> ELSE <<>>])

\* resolve_merge: one choice per conflict row, collected in a dict by sid.
Resolutions(conflicts, choice) ==
    [sid \in {conflicts[k].slot.sid : k \in DOMAIN conflicts} |->
        choice[Max({k \in DOMAIN conflicts : conflicts[k].slot.sid = sid})]]

\* compose_final_text: conflict by conflict, the first block equal to its marker
\* gives way to the resolution of its sid, a sequence of sentences (empty: keep
\* deleted); a paragraph left empty is dropped.
Composed(slots, resolution) ==
    LET replace(text, conflict) ==
            LET k == Min({m \in DOMAIN text : text[m] = conflict})
                final == resolution[conflict.slot.sid] IN
            SubSeq(text, 1, k - 1)
                \o [m \in DOMAIN final |-> [para |-> conflict.para, slot |-> Plain(final[m])]]
                \o SubSeq(text, k + 1, Len(text))
    IN Paragraphs(FoldLeft(replace, slots, Conflicts(slots)))

-----------------------------------------------------------------------------
(* The writers.                                                            *)

Layouts(texts) == {d \in SeqOf(SeqOf(Sentence, MaxBase) \ {<<>>}, MaxBase) :
                       FlattenSeq(d) = texts}

ProseInit ==
    /\ \E texts \in SeqOf(Sentence, MaxBase) : base \in Layouts(texts) /\ ours = texts
    /\ theirs = ours

\* A commit that inserts, deletes or rewrites one sentence.
Edits(side) ==
    (UNION {{InsertAt(side, i, s) : i \in 1..Len(side) + 1}
                \cup {ReplaceAt(side, i, s) : i \in DOMAIN side} : s \in Sentence})
        \cup {RemoveAt(side, i) : i \in DOMAIN side}

WithinBounds == /\ Len(ours) <= MaxSide /\ Len(theirs) <= MaxSide
                /\ Len(ours) + Len(theirs) <= MaxSides

WriteOurs == ours' \in Edits(ours) /\ UNCHANGED <<base, theirs>> /\ WithinBounds'
WriteTheirs == theirs' \in Edits(theirs) /\ UNCHANGED <<base, ours>> /\ WithinBounds'

Write == WriteOurs \/ WriteTheirs

ProseSpec == ProseInit /\ [][Write]_proseVars
-----------------------------------------------------------------------------
(* Properties.                                                             *)

BaseTexts == Texts(Flat(base))
Merged == Slots(base, ours, theirs)
Times(s, slots) == Cardinality({k \in DOMAIN slots : slots[k].slot = Plain(s)})

TypeOK ==
    /\ base \in Seq(Seq(Sentence) \ {<<>>}) /\ Len(BaseTexts) <= MaxBase
    /\ ours \in Side /\ theirs \in Side

\* The alignment behind diff, merge and reindexing accounts for every sentence of
\* both versions, in the order of the old one, pairs as many equal sentences as any
\* alignment can, and calls edited no pair less alike than 0.7 (EditedFromThreshold
\* is the converse).  Looked at once per version: while theirs is the base.
\* (align.py:53-91, 94-162)
AlignmentIsOptimal ==
    LET ops == Alignment[BaseTexts][ours] IN
    theirs = BaseTexts => IsAlignment(BaseTexts, ours, ops) /\ IsOptimal(BaseTexts, ours, ops)

\* Where a sentence was deleted and one as like it as the threshold put in its place,
\* the alignment says so.  ("classify (edited iff similarity >= 0.7)", align.py:6;
\* align.py:106 and docs/specs/diff-spec.md:11 say the same)
EditedFromThreshold ==
    LET ops == Alignment[BaseTexts][ours] IN
    theirs = BaseTexts => NoEditIsMissed(BaseTexts, ours, ops)

\* Merging theirs into ours is merging ours into theirs with the sides swapped.
MergeIsSymmetric ==
    LET slots == Merged
        swap(s) == IF s.kind = "text" THEN s ELSE Marker(s.sid, s.theirs, s.ours) IN
    Slots(base, theirs, ours) = [k \in DOMAIN slots |-> [slots[k] EXCEPT !.slot = swap(@)]]

\* Every sentence a writer rewrote or inserted is in the merged text or on the
\* writer's side of a conflict.  ("never silently discard incompatible changes",
\* three_way.py:5)
NothingDropped ==
    LET slots == Merged
        kept(s, own) == \E k \in DOMAIN slots :
            IF slots[k].slot.kind = "text" THEN slots[k].slot.text = s
            ELSE s \in ToSet(slots[k].slot[own])
        written(side) == {side[op.new] : op \in
            {op \in ToSet(Alignment[BaseTexts][side]) : op.type \in {"edited", "insert"}}} IN
    /\ \A s \in written(ours) : kept(s, "ours")
    /\ \A s \in written(theirs) : kept(s, "theirs")

\* A sentence is in the merged text only as often as both kept it or a side wrote
\* it: what one side deleted or rewrote does not come back.
NothingResurrected ==
    LET slots == Merged
        opsO == Alignment[BaseTexts][ours]
        opsT == Alignment[BaseTexts][theirs]
        wrote(ops, side, s) == Cardinality({k \in DOMAIN ops :
            ops[k].type \in {"edited", "insert"} /\ side[ops[k].new] = s})
        keptByBoth(s) == Cardinality({a \in DOMAIN BaseTexts :
            /\ BaseTexts[a] = s
            /\ Change(opsO, a).type = "equal" /\ Change(opsT, a).type = "equal"}) IN
    \A s \in Sentence :
        Times(s, slots) <= keptByBoth(s) + wrote(opsO, ours, s) + wrote(opsT, theirs, s)

\* What a merge owes its two writers, whichever of them is called ours.
MergeKeepsBothSides == MergeIsSymmetric /\ NothingDropped /\ NothingResurrected

\* Against an unchanged side the merge is clean and has our sentences, as far as
\* the hash tells them apart, possibly in another order.
OneSidedMergeHasOurWords ==
    LET slots == Merged
        times(h) == Cardinality({k \in DOMAIN slots : Hash[slots[k].slot.text] = h}) IN
    theirs = BaseTexts =>
       /\ Conflicts(slots) = <<>>
       /\ \A h \in Range(Hash) : times(h) = Cardinality({k \in DOMAIN ours : Hash[ours[k]] = h})

\* Against an unchanged side the merge IS our side.  ("changed one side only ->
\* take that side", three_way.py:8)
OneSidedMergeTakesThatSide ==
    theirs = BaseTexts =>
        [k \in DOMAIN Merged |-> Merged[k].slot] = [k \in DOMAIN ours |-> Plain(ours[k])]

\* However the conflicts are resolved, each marker gives way to the resolution of
\* its own conflict and none is left.  ("Each marker carries its sid and is unique,
\* so replacement is exact", three_way.py:262-263)
ResolutionIsExact ==
    LET slots == Merged
        conflicts == Conflicts(slots)
        options(c) == {c.slot.ours, c.slot.theirs, <<>>}
        number(k) == Cardinality({m \in 1..k : slots[m].slot.kind = "conflict"})
        choices == {f \in [DOMAIN conflicts -> UNION {options(c) : c \in ToSet(conflicts)}] :
                       \A k \in DOMAIN conflicts : f[k] \in options(conflicts[k])}
        final(choice, k) == IF slots[k].slot.kind = "text" THEN <<slots[k]>>
                            ELSE LET text == choice[number(k)] IN
                                 [m \in DOMAIN text |-> [para |-> slots[k].para, slot |-> Plain(text[m])]]
    IN \A choice \in choices :
          Composed(slots, Resolutions(conflicts, choice)) =
              Paragraphs(FlattenSeq([k \in DOMAIN slots |-> final(choice, k)]))

\* A heading put in front of a document of two sentences or more moves nothing.
\* ("a heading inserted at the top - is NOT a move", align.py:219)
ShiftIsNoMove ==
    LET changes(s) == Diff(base, <<<<s>>>> \o base)
        isNew(s) == \A k \in DOMAIN BaseTexts : Hash[BaseTexts[k]] # Hash[s] IN
    ours = BaseTexts /\ Len(BaseTexts) > 1 =>
        \A s \in Sentence : isNew(s) =>
            \A change \in ToSet(changes(s)) : change.status # "moved"
=============================================================================
