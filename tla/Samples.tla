------------------------------- MODULE Samples ------------------------------
(***************************************************************************)
(* The small programs of the repository side by side: a behaviour is one   *)
(* of them.  They share nothing.                                           *)
(***************************************************************************)
EXTENDS StringEncode, NumberEncode, InputStep, ZlibStream, Battle,
        GameRound, PlainRing, BdfReader, ImageConv, Password

VARIABLE part   \* which program this behaviour is

stringRest == <<part, numberVars, stepVars, zlibVars, battleVars, gameVars, plainVars, bdfVars,
                imageVars, passwordVars>>
numberRest == <<part, stringVars, stepVars, zlibVars, battleVars, gameVars, plainVars, bdfVars,
                imageVars, passwordVars>>
stepRest == <<part, stringVars, numberVars, zlibVars, battleVars, gameVars, plainVars, bdfVars,
              imageVars, passwordVars>>
zlibRest == <<part, stringVars, numberVars, stepVars, battleVars, gameVars, plainVars, bdfVars,
              imageVars, passwordVars>>
battleRest == <<part, stringVars, numberVars, stepVars, zlibVars, gameVars, plainVars, bdfVars,
                imageVars, passwordVars>>
gameRest == <<part, stringVars, numberVars, stepVars, zlibVars, battleVars, plainVars, bdfVars,
              imageVars, passwordVars>>
plainRest == <<part, stringVars, numberVars, stepVars, zlibVars, battleVars, gameVars, bdfVars,
               imageVars, passwordVars>>
bdfRest == <<part, stringVars, numberVars, stepVars, zlibVars, battleVars, gameVars, plainVars,
             imageVars, passwordVars>>
imageRest == <<part, stringVars, numberVars, stepVars, zlibVars, battleVars, gameVars,
               plainVars, bdfVars, passwordVars>>
passwordRest == <<part, stringVars, numberVars, stepVars, zlibVars, battleVars, gameVars,
                  plainVars, bdfVars, imageVars>>
vars == <<part, stringVars, numberVars, stepVars, zlibVars, battleVars, gameVars, plainVars,
          bdfVars, imageVars, passwordVars>>

\* Every program but the one chosen is at a first state of its own and stays there.
Init == /\ part \in {"string", "number", "input", "zlib", "battle", "game", "plain", "bdf",
                     "image", "password"}
        /\ StringInit /\ NumberInit /\ GameInit /\ PlainInit /\ PasswordInit
        /\ StepInit /\ (part # "input" => step_list = CHOOSE list \in StepLists : TRUE)
        /\ ZlibInit /\ (part # "zlib" => job = CHOOSE j \in ZlibJobs : TRUE)
        /\ BattleInit /\ (part # "battle" => player = CHOOSE first \in FirstPlayers : TRUE)
        /\ BdfInit /\ (part # "bdf" => file = CHOOSE f \in Files : TRUE)
        /\ ImageInit /\ (part # "image" => png = CHOOSE picture \in Pictures : TRUE)

Game(A) == part = "game" /\ A /\ UNCHANGED gameRest
Plain(A) == part = "plain" /\ A /\ UNCHANGED plainRest
Next == \/ part = "string" /\ StringNext /\ UNCHANGED stringRest
        \/ part = "number" /\ NumberNext /\ UNCHANGED numberRest
        \/ part = "input" /\ StepNext /\ UNCHANGED stepRest
        \/ part = "zlib" /\ ZlibNext /\ UNCHANGED zlibRest
        \/ part = "battle" /\ BattleNext /\ UNCHANGED battleRest
        \/ Game(GameNext)
        \/ Plain(PlainNext)
        \/ part = "bdf" /\ BdfNext /\ UNCHANGED bdfRest
        \/ part = "image" /\ ImageNext /\ UNCHANGED imageRest
        \/ part = "password" /\ PasswordNext /\ UNCHANGED passwordRest

Spec == Init /\ [][Next]_vars

\* The loop around zlib goes on, the game's threads go on, and so do those of test3: get()
\* and the others, where a compare-and-swap does not fail for no reason for ever.
FairSpec == /\ Spec
            /\ WF_vars(part = "zlib" /\ ZlibNext /\ UNCHANGED zlibRest)
            /\ WF_vars(Game(GameWork))
            /\ WF_vars(Plain(Getting)) /\ WF_vars(Plain(NotGetting))
            /\ \A t \in Runners : SF_vars(Plain(ClaimEnd(t)))

\* The parts have the types of the program's variables: the code's bit fields, counters
\* and buffers stay within their widths.
TypeOK == /\ StringTypeOK /\ NumberTypeOK /\ StepTypeOK /\ ZlibTypeOK /\ BattleTypeOK
          /\ GameTypeOK /\ PlainTypeOK /\ BdfTypeOK /\ ImageTypeOK /\ PasswordTypeOK
=============================================================================
