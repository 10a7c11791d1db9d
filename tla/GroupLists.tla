----------------------------- MODULE GroupLists -----------------------------
(***************************************************************************)
(* The group-list algorithms of the authenticator (authenticator-helper.cc,*)
(* authenticator-names.cc).  A group list is a sequence of group ids kept  *)
(* in ascending order:                                                     *)
(*   InsertGroup       the inner loop of translate_groups, which inserts   *)
(*                     one id into a sorted list and drops duplicates;     *)
(*   ContainsGroup     contains_group, a scan that stops at a larger id;   *)
(*   MergeGroupLists   merge_group_lists, the merge of two or three sorted *)
(*                     lists into one vector (NULL third list = NoList).   *)
(* Each is written after the code's loop, iterator by iterator, so that    *)
(* MCGroupLists can compare it with a plain definition of its result.      *)
(***************************************************************************)
EXTENDS Integers, Sequences, SequencesExt

\* merge_group_lists(one, two, NULL, merged): no third list (ids are >= 0)
NoList == <<-1>>

\* translate_groups: walk to the first position whose id is not smaller;
\* an equal id is not inserted again, a smaller one goes in front of it.
\* Mutant: the `group == *pos' branch dropped, so an id already in the
\* list is inserted again in front of itself.
InsertGroup_dup(l, g) ==
    LET i == SelectInSeq(l, LAMBDA x : g <= x)
    IN  IF i = 0 THEN Append(l, g) ELSE InsertAt(l, i, g)

InsertGroup(l, g) ==
    LET i == SelectInSeq(l, LAMBDA x : g <= x)
    IN  IF i = 0 THEN Append(l, g)
        ELSE IF l[i] = g THEN l
        ELSE InsertAt(l, i, g)

\* contains_group: true at an equal id, false at the first larger one
ContainsGroup(l, id) ==
    LET i == SelectInSeq(l, LAMBDA x : x >= id)
    IN  i # 0 /\ l[i] = id

\* The while(true) loop of merge_group_lists.  i1, i2, i3 are the three
\* iterators; t is `three != NULL'.  An exhausted third list becomes NULL;
\* an exhausted first or second list is replaced by the third (one = three,
\* iter1 = iter3, three = NULL); with no third list the rest of the other
\* list is copied.  The smallest head is taken, the later list on ties.
RECURSIVE MergeLoop(_, _, _, _, _, _, _, _)
MergeLoop(one, i1, two, i2, three, i3, t, out) ==
    LET t1 == t /\ i3 <= Len(three)
    IN
    IF i1 > Len(one) /\ ~t1 THEN out \o SubSeq(two, i2, Len(two))
    ELSE
    LET o  == IF i1 > Len(one) THEN three ELSE one
        j1 == IF i1 > Len(one) THEN i3 ELSE i1
        t2 == t1 /\ i1 <= Len(one)
    IN
    IF i2 > Len(two) /\ ~t2 THEN out \o SubSeq(o, j1, Len(o))
    ELSE
    LET w  == IF i2 > Len(two) THEN three ELSE two
        j2 == IF i2 > Len(two) THEN i3 ELSE i2
        t3 == t2 /\ i2 <= Len(two)
    IN
    IF ~t3
    THEN IF o[j1] < w[j2]
         THEN MergeLoop(o, j1 + 1, w, j2, three, i3, FALSE, Append(out, o[j1]))
         ELSE MergeLoop(o, j1, w, j2 + 1, three, i3, FALSE, Append(out, w[j2]))
    ELSE IF o[j1] < w[j2]
         THEN IF o[j1] < three[i3]
              THEN MergeLoop(o, j1 + 1, w, j2, three, i3, TRUE, Append(out, o[j1]))
              ELSE MergeLoop(o, j1, w, j2, three, i3 + 1, TRUE, Append(out, three[i3]))
         ELSE IF w[j2] < three[i3]
              THEN MergeLoop(o, j1, w, j2 + 1, three, i3, TRUE, Append(out, w[j2]))
              ELSE MergeLoop(o, j1, w, j2, three, i3 + 1, TRUE, Append(out, three[i3]))

\* Mutant: the third list (the host groups of set_host_groups) ignored.
MergeGroupLists_twoonly(one, two, three) ==
    MergeLoop(one, 1, two, 1, <<>>, 1, FALSE, <<>>)

MergeGroupLists(one, two, three) ==
    IF three = NoList THEN MergeLoop(one, 1, two, 1, <<>>, 1, FALSE, <<>>)
    ELSE MergeLoop(one, 1, two, 1, three, 1, TRUE, <<>>)

=============================================================================
