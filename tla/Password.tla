------------------------------ MODULE Password ------------------------------
(***************************************************************************)
(* password.cpp: the main program draws characters until it has a word     *)
(* with enough of each kind.  A random index is any index in its range; a  *)
(* character that was drawn cnt times before is refused unless a random    *)
(* number of 0 .. 99 reaches cnt * 40.                                     *)
(***************************************************************************)
EXTENDS Naturals, Sequences, FiniteSets

CONSTANTS
  Uppers, Lowers, Digits,   \* charList
  WordLength,               \* 16 in the code
  MinLetters,               \* more than this many of each case: 3 in the code
  MaxAttempts               \* the words drawn

ASSUME CharsAssumption == /\ Uppers \cap Lowers = {}
                          /\ (Uppers \cup Lowers) \cap Digits = {}
                          /\ IsFiniteSet(Uppers) /\ IsFiniteSet(Lowers)

\* A word is not longer than the letters of the list last, 16 and 156 in the code.
ASSUME WordAssumption == /\ WordLength \in 1 .. 3 * Cardinality(Uppers \cup Lowers)
                         /\ MinLetters \in Nat /\ MaxAttempts \in Nat

VARIABLES
  passwd, countList,
  printed,
  attempts

passwordVars == <<passwd, countList, printed, attempts>>

charList == Uppers \cup Lowers \cup Digits
NoneDrawn == [c \in charList |-> 0]
PasswordInit == passwd = <<>> /\ countList = NoneDrawn /\ printed = FALSE /\ attempts = 1

Accepted(c) == \E retry \in 0 .. 99 : retry >= countList[c] * 40

\* One character, after those that were refused: the first is no digit.
Draw(c) == /\ Len(passwd) < WordLength
           /\ passwd = <<>> => c \notin Digits
           /\ Accepted(c)
           /\ passwd' = Append(passwd, c)
           /\ countList' = [countList EXCEPT ![c] = @ + 1]
           /\ UNCHANGED <<printed, attempts>>

Have(kind) == Cardinality({k \in DOMAIN passwd : passwd[k] \in kind})
Enough == Have(Uppers) > MinLetters /\ Have(Lowers) > MinLetters /\ Have(Digits) > 0

\* Mutant of Again: countList is not filled with zeros.
AgainCounted == /\ Len(passwd) = WordLength /\ ~printed /\ ~Enough /\ attempts < MaxAttempts
                /\ passwd' = <<>>
                /\ attempts' = attempts + 1
                /\ UNCHANGED <<countList, printed>>

\* The tests behind the word
PrintWord == /\ Len(passwd) = WordLength /\ ~printed /\ Enough
           /\ printed' = TRUE
           /\ UNCHANGED <<passwd, countList, attempts>>
Again == /\ Len(passwd) = WordLength /\ ~printed /\ ~Enough /\ attempts < MaxAttempts
         /\ passwd' = <<>> /\ countList' = NoneDrawn
         /\ attempts' = attempts + 1
         /\ UNCHANGED printed

PasswordNext == (\E c \in charList : Draw(c)) \/ PrintWord \/ Again

-----------------------------------------------------------------------------
PasswordTypeOK == /\ passwd \in Seq(charList) /\ Len(passwd) <= WordLength
                  /\ countList \in [charList -> 0 .. 3]

\* A word does not feel those thrown away before it: any character drawn less than three
\* times in this word may be next, and no other, so a word can always be finished
\* (password.cpp:36-68).  What is printed begins with a letter.
Occurs(c) == Cardinality({k \in DOMAIN passwd : passwd[k] = c})
FreshWords == /\ \A c \in charList : Accepted(c) <=> Occurs(c) < 3
              /\ Len(passwd) < WordLength => \E c \in charList \ Digits : Occurs(c) < 3
              /\ printed => passwd[1] \notin Digits /\ \A c \in charList : Occurs(c) <= 3
=============================================================================
