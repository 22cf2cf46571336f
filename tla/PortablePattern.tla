--------------------------- MODULE PortablePattern ---------------------------
(***************************************************************************)
(* The scanner that decides which regular expressions a portable schema    *)
(* may hold (hasPortablePatternSyntax).  It reads the pattern once and     *)
(* keeps a stack of frames, one for each open group; it accepts only what  *)
(* a backtracking engine can match without trying many ways.               *)
(*                                                                         *)
(* Beside each frame runs what the flags of the frame stand for: in how    *)
(* many ways the part read so far can match the first n characters of a    *)
(* string all of whose characters match every literal and every class,     *)
(* which is the worst case.  The scanner never reads these counts.         *)
(*                                                                         *)
(* One token is one step: a literal or an escape, a character of a class,  *)
(* a parenthesis, a bar, a repetition, an anchor, or something refused.    *)
(***************************************************************************)
EXTENDS Integers, Sequences

CONSTANTS
  MaxTokens,    \* bound on the length of the patterns
  MaxDepth,     \* bound on the depth of groups
  Length,       \* bound on the length of the strings
  Repetitions   \* the repetitions that occur, [min, max]; max = Unbounded

ASSUME PatternAssumption ==
  /\ MaxTokens \in Nat /\ MaxDepth \in Nat \ {0} /\ Length \in Nat
  /\ \A r \in Repetitions : r.min \in Nat /\ r.max \in Nat /\ r.max >= r.min

\* More repetitions than any string of the model has room for.
Unbounded == 10001

VARIABLES
  verdict,   \* what the scanner says: "reading", "accepted" or "rejected"
  frames,    \* the frames, the innermost first, with their counts
  class,     \* the class being read: "none", "empty", "caret" or "filled"
  read,      \* how many tokens were read
  bars,      \* how many of them were bars
  anchored   \* whether the pattern ends with the anchor $

patternVars == <<verdict, frames, class, read, bars, anchored>>

Min2(a, b) == IF a < b THEN a ELSE b
-----------------------------------------------------------------------------
(***************************************************************************)
(* Counting the ways to match                                              *)
(***************************************************************************)
Strings == 0 .. Length
Nothing == [n \in Strings |-> 0]
Empty == [n \in Strings |-> IF n = 0 THEN 1 ELSE 0]
OneCharacter == [n \in Strings |-> IF n = 1 THEN 1 ELSE 0]

Total(f, n) ==
  LET upTo[k \in 0 .. n] == IF k = 0 THEN f[0] ELSE f[k] + upTo[k - 1]
  IN  upTo[n]

Either(a, b) == [n \in Strings |-> a[n] + b[n]]
Then(a, b) == [n \in Strings |-> Total([k \in 0 .. n |-> a[k] * b[n - k]], n)]

\* An atom that is never empty matches a string of n in at most n repetitions.
Repeated(a, min, max) ==
  LET powers[k \in Nat] == IF k = 0 THEN Empty ELSE Then(a, powers[k - 1])
      some[k \in Nat] ==
        IF k < min THEN Nothing
        ELSE IF k = 0 THEN powers[0] ELSE Either(powers[k], some[k - 1])
  IN  some[Min2(max, IF min > Length THEN min ELSE Length)]
-----------------------------------------------------------------------------
(***************************************************************************)
(* Frames and atoms.  A frame counts the ways of its earlier branches, of  *)
(* the branch before its last atom, and of that atom.                      *)
(***************************************************************************)
NoAtom == [isAtom |-> FALSE, ways |-> Empty]
Atom(variable, repetition, alternation, isGroup, ways) ==
  [isAtom |-> TRUE, canMatchEmpty |-> FALSE, hasVariableShape |-> variable,
   isQuantified |-> FALSE, prefixCanMatchEmpty |-> FALSE,
   containsVariableRepetition |-> repetition,
   containsAlternation |-> alternation, isGroup |-> isGroup, ways |-> ways]
Literal == Atom(FALSE, FALSE, FALSE, FALSE, OneCharacter)

NewFrame ==
  [sequenceCanMatchEmpty |-> TRUE, earlierBranchCanMatchEmpty |-> FALSE,
   containsVariableRepetition |-> FALSE, containsAlternation |-> FALSE,
   branchHasVariableShape |-> FALSE, lastAtom |-> NoAtom,
   earlierWays |-> Nothing, prefixWays |-> Empty]

BranchWays(frame) == Then(frame.prefixWays, frame.lastAtom.ways)
FrameWays(frame) == Either(frame.earlierWays, BranchWays(frame))

CanPush(frame, atom) ==
  ~ (atom.hasVariableShape /\ frame.branchHasVariableShape)

Push(frame, atom) ==
  [frame EXCEPT
     !.lastAtom = [atom EXCEPT
                     !.prefixCanMatchEmpty = frame.sequenceCanMatchEmpty],
     !.sequenceCanMatchEmpty = @ /\ atom.canMatchEmpty,
     !.branchHasVariableShape = @ \/ atom.hasVariableShape,
     !.containsVariableRepetition = @ \/ atom.containsVariableRepetition,
     !.containsAlternation = @ \/ atom.containsAlternation,
     !.prefixWays = BranchWays(frame)]

ForgetAtom(frame) ==
  [frame EXCEPT !.lastAtom = NoAtom, !.prefixWays = BranchWays(frame)]

VariableExtent(r) == r.max # r.min

\* The check on the branch forgotten: a second variable extent is taken.
CanRepeatTwice(frame, r) ==
  LET atom == frame.lastAtom IN
  /\ atom.isAtom /\ ~ atom.isQuantified /\ r.max # 0
  /\ atom.isGroup => ~ (\/ atom.canMatchEmpty
                        \/ atom.containsVariableRepetition
                        \/ atom.containsAlternation)

CanRepeat(frame, r) ==
  LET atom == frame.lastAtom IN
  /\ atom.isAtom /\ ~ atom.isQuantified /\ r.max # 0
  /\ atom.isGroup => ~ (\/ atom.canMatchEmpty
                        \/ atom.containsVariableRepetition
                        \/ atom.containsAlternation)
  /\ VariableExtent(r) => ~ frame.branchHasVariableShape

Repeat(frame, r) ==
  LET atom == frame.lastAtom
      empty == r.min = 0 \/ atom.canMatchEmpty
  IN  [frame EXCEPT
         !.lastAtom = [atom EXCEPT
                         !.isQuantified = TRUE,
                         !.hasVariableShape = @ \/ VariableExtent(r),
                         !.canMatchEmpty = empty,
                         !.ways = Repeated(atom.ways, r.min, r.max)],
         !.sequenceCanMatchEmpty = atom.prefixCanMatchEmpty /\ empty,
         !.branchHasVariableShape = @ \/ VariableExtent(r),
         !.containsVariableRepetition = @ \/ VariableExtent(r)]

NextBranch(frame) ==
  [frame EXCEPT
     !.containsAlternation = TRUE,
     !.earlierBranchCanMatchEmpty = @ \/ frame.sequenceCanMatchEmpty,
     !.sequenceCanMatchEmpty = TRUE, !.branchHasVariableShape = FALSE,
     !.lastAtom = NoAtom, !.prefixWays = Empty,
     !.earlierWays = FrameWays(frame)]

CanMatchEmpty(group) ==
  group.earlierBranchCanMatchEmpty \/ group.sequenceCanMatchEmpty

GroupAtom(group) ==
  Atom(group.containsVariableRepetition \/ group.containsAlternation,
       group.containsVariableRepetition, group.containsAlternation, TRUE,
       FrameWays(group))
-----------------------------------------------------------------------------
(***************************************************************************)
(* The scanner                                                             *)
(***************************************************************************)
Frame == Head(frames)

\* A pattern starts with the anchor ^, which is no atom.
PatternInit ==
  /\ verdict = "reading" /\ frames = <<NewFrame>> /\ class = "none"
  /\ read = 0 /\ bars = 0 /\ anchored = FALSE

\* Nothing may follow the anchor at the end, and the bounds of the model.
Reading == verdict = "reading" /\ ~ anchored /\ read < MaxTokens

\* The next token leaves this frame innermost, if the scanner takes it.
Takes(ok, frame) ==
  /\ IF ok THEN frames' = <<frame>> \o Tail(frames) /\ UNCHANGED verdict
           ELSE verdict' = "rejected" /\ UNCHANGED frames
  /\ read' = read + 1

ReadLiteral ==
  /\ Reading /\ class = "none"
  /\ Takes(CanPush(Frame, Literal), Push(Frame, Literal))
  /\ UNCHANGED <<class, bars, anchored>>

OpenClass ==
  /\ Reading /\ class = "none"
  /\ class' = "empty"
  /\ read' = read + 1
  /\ UNCHANGED <<verdict, frames, bars, anchored>>

\* Inside of a class a caret counts as its content unless it comes first.
ReadInClass ==
  /\ Reading /\ class # "none"
  /\ class' \in IF class = "empty" THEN {"caret", "filled"} ELSE {"filled"}
  /\ read' = read + 1
  /\ UNCHANGED <<verdict, frames, bars, anchored>>

CloseClass ==
  /\ Reading /\ class # "none"
  /\ Takes(class = "filled" /\ CanPush(Frame, Literal), Push(Frame, Literal))
  /\ class' = "none"
  /\ UNCHANGED <<bars, anchored>>

OpenGroup ==
  /\ Reading /\ class = "none" /\ Len(frames) < MaxDepth
  /\ frames' = <<NewFrame>> \o frames
  /\ read' = read + 1
  /\ UNCHANGED <<verdict, class, bars, anchored>>

CloseGroup ==
  /\ Reading /\ class = "none"
  /\ IF Len(frames) > 1 /\ ~ CanMatchEmpty(Frame)
          /\ CanPush(frames[2], GroupAtom(Frame))
       THEN /\ frames' = <<Push(frames[2], GroupAtom(Frame))>>
                           \o SubSeq(frames, 3, Len(frames))
            /\ UNCHANGED verdict
       ELSE verdict' = "rejected" /\ UNCHANGED frames
  /\ read' = read + 1
  /\ UNCHANGED <<class, bars, anchored>>

ReadBar ==
  /\ Reading /\ class = "none"
  /\ Takes(Len(frames) > 1, NextBranch(Frame))
  /\ bars' = bars + 1
  /\ UNCHANGED <<class, anchored>>

ReadRepetition ==
  /\ Reading /\ class = "none"
  /\ \E r \in Repetitions : Takes(CanRepeat(Frame, r), Repeat(Frame, r))
  /\ UNCHANGED <<class, bars, anchored>>

ReadEndAnchor ==
  /\ Reading /\ class = "none"
  /\ Takes(TRUE, ForgetAtom(Frame))
  /\ anchored' = TRUE
  /\ UNCHANGED <<class, bars>>

\* A dot, an anchor inside, a stray bracket, an escape that is not shared, a set
\* operation of a class, a control character.
ReadRefused ==
  /\ Reading
  /\ verdict' = "rejected"
  /\ read' = read + 1
  /\ UNCHANGED <<frames, class, bars, anchored>>

EndOfPattern ==
  /\ verdict = "reading"
  /\ verdict' = IF /\ class = "none" /\ Len(frames) = 1
                   /\ \/ anchored
                      \/ /\ Frame.lastAtom.isAtom
                         /\ ~ Frame.containsVariableRepetition
                         /\ ~ Frame.containsAlternation
                  THEN "accepted" ELSE "rejected"
  /\ UNCHANGED <<frames, class, read, bars, anchored>>

PatternNext ==
  \/ ReadLiteral \/ OpenClass \/ ReadInClass \/ CloseClass
  \/ OpenGroup \/ CloseGroup \/ ReadBar \/ ReadRepetition
  \/ ReadEndAnchor \/ ReadRefused \/ EndOfPattern

PatternSpec == PatternInit /\ [][PatternNext]_patternVars
-----------------------------------------------------------------------------
(***************************************************************************)
(* Properties                                                              *)
(***************************************************************************)
\* The flags that decide on empty groups mean what their names say.
EmptinessKnown ==
  \A i \in DOMAIN frames :
    /\ frames[i].sequenceCanMatchEmpty <=> BranchWays(frames[i])[0] > 0
    /\ frames[i].earlierBranchCanMatchEmpty <=> frames[i].earlierWays[0] > 0

\* What may be repeated or bounded only at its start has one shape.
PrefixIsFixed ==
  verdict = "accepted" /\ ~ anchored =>
    LET ways == FrameWays(Frame) IN
    /\ \A n \in Strings : ways[n] <= 1
    /\ \A m, n \in Strings : ways[m] > 0 /\ ways[n] > 0 => m = n

\* An accepted pattern matches a string in no more ways than it has branches,
\* however long the string is: no repetition multiplies them ("backtracking-
\* unsafe repetition shapes fail closed").
PatternUnambiguous ==
  /\ EmptinessKnown
  /\ PrefixIsFixed
  /\ verdict = "accepted" =>
       \A n \in Strings : FrameWays(Frame)[n] <= 1 + bars
=============================================================================
