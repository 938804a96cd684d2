----------------------------- MODULE MCVerdicts -----------------------------
(* The model's answers, for TLC: what is kept of the claim gate's, and of a  *)
(* coverage check's and a score's; and the calls they come from, of one task *)
(* of any kind. A behaviour is of one of the three.                          *)
EXTENDS Gate, Fit, Calls, TLC

CONSTANTS s1, s2, one, two, none, led, ledFive, onCall

VARIABLE mode

VerdictsVars == <<mode, gateVars, fitVars, callsVars>>

MCBegins == [a \in Abbreviated |-> IF a = one THEN {s1} ELSE IF a = two THEN {s1, s2} ELSE {}]
MCWithin == {<<a, a>> : a \in Sentences} \union {<<led, ledFive>>}

Says(kind, verdict, cited) == [kind |-> kind, verdict |-> verdict, cited |-> cited]
MCPalette ==
  {Says("claim", "supported", cited) :
     cited \in {{}, {s1}, {one}, {two}, {Unknown}, {s1, Unknown}}}
  \union {Says("claim", "review", {s1}), Says("claim", "unsupported", {}),
          Says("framing", "supported", {}), Says("title", "supported", {}),
          Says("claim", NoVerdict, {s1})}

GateIdle == cv = <<>> /\ asked = [by |-> "user", at |-> "written"] /\ answer = <<>> /\ output = <<>>
FitIdle  == profile = Cleared /\ said = Nothing /\ stored = Nothing
CallsIdle == /\ CallsInit /\ account = "ok" /\ handler = [of |-> Extraction, missing |-> 0]

VerdictsInit ==
  \/ mode = "gate" /\ GateInit /\ FitIdle /\ CallsIdle
  \/ mode = "fit" /\ FitInit /\ GateIdle /\ CallsIdle
  \/ mode = "calls" /\ CallsInit /\ GateIdle /\ FitIdle

VerdictsNext ==
  /\ UNCHANGED mode
  /\ \/ mode = "gate" /\ GateNext /\ UNCHANGED <<fitVars, callsVars>>
     \/ mode = "fit" /\ FitNext /\ UNCHANGED <<gateVars, callsVars>>
     \/ mode = "calls" /\ CallsNext /\ UNCHANGED <<gateVars, fitVars>>

VerdictsSpec == VerdictsInit /\ [][VerdictsNext]_VerdictsVars

\* A line is shown as what its claims are shown to be: see Gate.
VerdictsAreEarned == mode = "gate" => GateTypeOK /\ LinesAreEarned

\* What is kept of a check or a score is what the model said, of this corpus and this
\* profile, and adds up: see Fit.
ScoreIsHonest ==
  mode = "fit" => CoverageIsGrounded /\ NumberIsItsVerdicts /\ AnswerIsOfTheProfile

\* Every call is on the books, and none is made that need not be: see Calls.
CallsAreAccounted ==
  mode = "calls" => OnTheBooks /\ NotPaidAgain /\ AttemptsAreCounted /\ BannerIsTrue
=============================================================================
