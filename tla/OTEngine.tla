------------------------------ MODULE OTEngine ------------------------------
(***************************************************************************)
(* services/otEngine.ts and the document it works on: a change that comes  *)
(* from a peer is applied to a copy of the text, turned into patches of    *)
(* that text (DiffMatchPatch) and these into one replacement of the whole  *)
(* document, which the editor then carries out.  The engine keeps what it  *)
(* takes for the document's text.  Every operation is synchronous.         *)
(***************************************************************************)
EXTENDS Texts, FiniteSets, SequencesExt

CONSTANTS
    Patches(_, _),   \* computePatches: what the library makes of two texts
    Applied(_, _),   \* patch_apply: of patches and a text, [text, results]
    OtTexts,         \* texts the document may have at first
    OtLocal,         \* lists of changes made here
    OtRemote,        \* lists of changes that come from a peer
    MaxOtSteps       \* bound: operations

\* A range goes forward, as those of the editor do.
Position == [line : Nat, character : Nat]
TextChange ==
    {c \in [start : Position, end : Position, text : Seq(Characters)] : c.start.line <= c.end.line}

ASSUME OtAssumption ==
    /\ OtTexts \subseteq Seq(Characters)
    /\ OtLocal \subseteq Seq(TextChange) /\ OtRemote \subseteq Seq(TextChange)
    /\ MaxOtSteps \in Nat

VARIABLES
    otText,          \* the document in the editor
    otState,         \* documentStates of its path
    otLast,          \* the last operation: its name, changes made here, changes of a peer
    otSteps

otVars == <<otText, otState, otLast, otSteps>>

OtInit ==
    /\ otText \in OtTexts /\ otState = otText
    /\ otLast = <<"none", << >>, << >>>> /\ otSteps = 0

-----------------------------------------------------------------------------
(* text.split('\n'), and a change of a range of lines and characters.       *)

WithCharacter(ls, c) ==
    IF c = "\n" THEN Append(ls, << >>) ELSE [ls EXCEPT ![Len(ls)] = Append(@, c)]
SplitLines(t) ==
    LET split[n \in 0 .. Len(t)] ==
            IF n = 0 THEN << << >> >> ELSE WithCharacter(split[n - 1], t[n])
    IN split[Len(t)]
JoinLines(ls) == Tail(FlattenSeq([i \in DOMAIN ls |-> <<"\n">> \o ls[i]]))

Suffix(lines, change) ==
    LET line == IF change.end.line < Len(lines) THEN change.end.line ELSE change.start.line
    IN From(lines[line + 1], change.end.character)
ApplyChangeToText(t, change) ==
    LET lines == SplitLines(t)
        first == change.start.line
        replaced == Upto(lines[first + 1], change.start.character) \o change.text \o Suffix(lines, change)
    IN IF first >= Len(lines) THEN t \o change.text
       ELSE JoinLines(SubSeq(lines, 1, first) \o <<replaced>>
                      \o SubSeq(lines, change.end.line + 2, Len(lines)))
ApplyAll(t, changes) ==
    LET applied[n \in 0 .. Len(changes)] ==
            IF n = 0 THEN t ELSE ApplyChangeToText(applied[n - 1], changes[n])
    IN applied[Len(changes)]

Every(results) == \A i \in DOMAIN results : results[i]

\* textToSingleChange: the whole of the old text becomes the new one.
WholeEnd(lines) == [line |-> Len(lines) - 1, character |-> Len(Last(lines))]
TextToSingleChange(old, new) ==
    IF old = new THEN << >>
    ELSE <<[start |-> [line |-> 0, character |-> 0], end |-> WholeEnd(SplitLines(old)), text |-> new]>>

Outcome(old, new) == [text |-> new, changes |-> TextToSingleChange(old, new)]
\* The patches that make `changed' of a text, applied to that text or another.
Patched(base, changed, other) == Applied(Patches(base, changed), other)

\* applyRemoteWithOT, as the new text of the engine and the changes it returns.
ApplyRemoteWithOT(current, changes) ==
    LET simulated == ApplyAll(current, changes)
        outcome(result) == IF Every(result.results) THEN Outcome(current, result.text)
                           ELSE [text |-> simulated, changes |-> changes]
    IN outcome(Patched(current, simulated, current))

\* mergeChanges of two peers' changes of the text the engine knows.
MergeChanges(base, local, remote) ==
    LET localText == ApplyAll(base, local)
        remoteText == ApplyAll(base, remote)
        fitting(merged, fallback) == IF Every(merged.results) THEN merged.text ELSE fallback.text
    IN Outcome(base, fitting(Patched(base, localText, remoteText), Patched(base, remoteText, localText)))

-----------------------------------------------------------------------------
(* What the editor does with changes: a position is an offset of the text.  *)

Offset(t, position) ==
    LET lines == SplitLines(t)
        start == Len(FlattenSeq(SubSeq(lines, 1, position.line))) + position.line
    IN IF position.line >= Len(lines) THEN Len(t)
       ELSE start + Smaller(position.character, Len(lines[position.line + 1]))
Edited(t, change) ==
    Upto(t, Offset(t, change.start)) \o change.text \o From(t, Offset(t, change.end))
EditedAll(t, changes) ==
    LET edited[n \in 0 .. Len(changes)] ==
            IF n = 0 THEN t ELSE Edited(edited[n - 1], changes[n])
    IN edited[Len(changes)]
InRange(t, change) == change.end.line < Len(SplitLines(t))

Stepping(name, local, remote) ==
    /\ otSteps < MaxOtSteps
    /\ otSteps' = otSteps + 1
    /\ otLast' = <<name, local, remote>>

\* The user edits: the listener has the text tracked (trackDocument).
OtLocalEdit(changes) ==
    /\ Stepping("edit", changes, << >>)
    /\ otText' = EditedAll(otText, changes)
    /\ otState' = otText'

Carries(result) ==
    /\ otState' = result.text
    /\ otText' = EditedAll(otText, result.changes)

\* handleRemoteFileChange: the changes returned go to the editor.
OtRemoteChange(changes) ==
    /\ Stepping("remote", << >>, changes)
    /\ Carries(ApplyRemoteWithOT(otText, changes))

OtMerge(local, remote) ==
    /\ Stepping("merge", local, remote)
    /\ otState = otText
    /\ Carries(MergeChanges(otState, local, remote))

OtReset == Stepping("reset", << >>, << >>) /\ otState' = << >> /\ UNCHANGED otText

OtNext ==
    \/ \E changes \in OtLocal : OtLocalEdit(changes)
    \/ \E changes \in OtRemote : OtRemoteChange(changes)
    \/ \E local \in OtLocal, remote \in OtRemote : OtMerge(local, remote)
    \/ OtReset

OtSpec == OtInit /\ [][OtNext]_otVars

-----------------------------------------------------------------------------
(* The two texts have only characters of the document: the control          *)
(* characters that patch_apply puts around a text are gone again.           *)
OtTypeOK ==
    /\ otText \in Seq(Characters) /\ otState \in Seq(Characters)
    /\ otSteps \in 0 .. MaxOtSteps
    /\ otLast[1] \in {"none", "edit", "remote", "merge", "reset"}

\* The engine never goes on from a text that is not the editor's: the one
\* replacement it returns covers all of the old document, however its last line
\* ends (textToSingleChange, otEngine.ts:109; trackDocument, otEngine.ts:18).
EngineKnowsText == otLast[1] # "reset" => otState = otText

\* A peer's change, on its way through diff, clean-up, patches and fuzzy match
\* to one replacement of the document, does what it says: no character near it
\* is lost or doubled, and no patch lands in another place that looks the same
\* (applyRemoteWithOT, otEngine.ts:67).
RemoteChangeIsExact ==
    [][otLast'[1] = "remote" => otText' = ApplyAll(otText, otLast'[3])]_otVars

\* The lines and characters of a change that fits the document mean the same to
\* the engine as to the editor (applyChangeToText, otEngine.ts:89).
ChangesMeanTheSame ==
    [][otLast'[1] = "remote" => \A i \in DOMAIN otLast'[3] :
          LET change == otLast'[3][i]
          IN InRange(otText, change)
             => ApplyChangeToText(otText, change) = Edited(otText, change)]_otVars

\* A merge with nothing from one side is what the other side did
\* (mergeChanges, otEngine.ts:37).
MergeWithNobody ==
    [][/\ otLast'[1] = "merge"
       /\ << >> \in {otLast'[2], otLast'[3]}
       => otText' = ApplyAll(otText, otLast'[2] \o otLast'[3])]_otVars

\* Two peers that each insert a character keep both, once, and all of the text
\* they insert it in, wherever the fuzzy match puts them
\* (mergeChanges, otEngine.ts:37; patch_apply, diff-match-patch/index.js:1809).
Inserts(changes, c) ==
    Len(changes) = 1 /\ changes[1].start = changes[1].end /\ changes[1].text = <<c>>
MergeKeepsBoth ==
    [][/\ otLast'[1] = "merge"
       /\ Inserts(otLast'[2], "x") /\ Inserts(otLast'[3], "y")
       => /\ SelectSeq(otText', LAMBDA c : c \notin {"x", "y"}) = otText
          /\ SelectSeq(otText', LAMBDA c : c \in {"x", "y"}) \in {<<"x", "y">>, <<"y", "x">>}]_otVars

\* What the engine builds on: the patches of a text make of it what they were made
\* for, those of a text that did not change leave any other as it is, and no
\* control character stays in what a merge makes (applyPatches, otEngine.ts:32).
PatchesFit(a, b) == Patched(a, b, a).text = b /\ Every(Patched(a, b, a).results)
NoPatchesNoChange(a, b) == Patched(a, a, b).text = b /\ Every(Patched(a, a, b).results)
KeepsText(a, b, c) == Patched(a, b, c).text \in Seq(Characters)
LibraryServes ==
    LET made == {ApplyAll(otText, changes) : changes \in {otLast'[2], otLast'[3]}}
    IN otLast'[1] \in {"remote", "merge"} =>
          /\ \A t \in made : PatchesFit(otText, t) /\ NoPatchesNoChange(otText, t)
          /\ \A t, u \in made : KeepsText(otText, t, u)
LibraryDoesItsPart == [][LibraryServes]_otVars

\* What the engine makes of changes is what they say, and it goes on from there.
EngineIsExact ==
    /\ []EngineKnowsText /\ LibraryDoesItsPart
    /\ RemoteChangeIsExact /\ ChangesMeanTheSame
    /\ MergeWithNobody /\ MergeKeepsBoth
=============================================================================
