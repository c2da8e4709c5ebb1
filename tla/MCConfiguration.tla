-------------------------- MODULE MCConfiguration ---------------------------
(* The three masters of the serial buses, CameraConfig, BridgeConfig and     *)
(* LensDriver, each on a small instance.  They share no state but the        *)
(* release that lets the next one go, which each instance has as an input,   *)
(* so one run holds them side by side: part is the one that moves.           *)
EXTENDS CameraConfig

CONSTANTS BridgeTable, BridgePauses, BridgePauseTicks, BridgeTransfer, BridgeHold,
          LensSteps, FrameTicks, LongestFrame, LensTime, LensTransfer, LensDelay

VARIABLES part,
          bResetN, bHold, bSt, bGo, bWcnt, bCnt, bDely, bFrame, bRelease, bTab,
          bWord, bPtr, bRd, bWorked, bAnswers, bSent,
          lReleased, lFrames, lReady, lVs, lRisen, lTr, lStep, lServed,
          lSt, lGo, lCnt, lWcnt, lDely, lData, lRead, lWord, lRd, lWorked, lLens

bridgeVars == <<bResetN, bHold, bSt, bGo, bWcnt, bCnt, bDely, bFrame, bRelease, bTab,
                bWord, bPtr, bRd, bWorked, bAnswers, bSent>>
lensVars == <<lReleased, lFrames, lReady, lVs, lRisen, lTr, lStep, lServed,
              lSt, lGo, lCnt, lWcnt, lDely, lData, lRead, lWord, lRd, lWorked, lLens>>

Bridge == INSTANCE BridgeConfig WITH
    Table <- BridgeTable, Pauses <- BridgePauses, PauseTicks <- BridgePauseTicks,
    TransferTicks <- BridgeTransfer, MinHold <- BridgeHold,
    resetN <- bResetN, hold <- bHold, st <- bSt, go <- bGo, wcnt <- bWcnt, cnt <- bCnt,
    dely <- bDely, frame <- bFrame, release <- bRelease, tab <- bTab, word <- bWord,
    ptr <- bPtr, rd <- bRd, worked <- bWorked, answers <- bAnswers, sent <- bSent

Lens == INSTANCE LensDriver WITH
    Steps <- LensSteps, Time <- LensTime, TransferTicks <- LensTransfer, DelayFrames <- LensDelay,
    released <- lReleased, frames <- lFrames, ready <- lReady, vs <- lVs, risen <- lRisen,
    rTr <- lTr, step <- lStep, served <- lServed, st <- lSt, go <- lGo, cnt <- lCnt,
    wcnt <- lWcnt, dely <- lDely, data <- lData, read <- lRead, word <- lWord, rd <- lRd,
    worked <- lWorked, lens <- lLens

ASSUME BusesAssumption ==
    Bridge!BridgeAssumption /\ Bridge!EndsWithWord /\ Lens!FrameTimeAssumption

\* Words of two-bit bytes.  A pause is tagged with TIME_DELAY, which nothing
\* drives: it is a pause if that happens to read as DelayType, and a word to
\* slave 0 if it reads as 0.
McTable == << <<2, 0, 3, 1>>, <<1, 0, 0, 2>>, <<0, 0, 0, 2>>, <<2, 1, 2, 3>> >>
McIdPointer == <<3, 1>>
McBridgeTable == <<"control", "pause", "pll", "pause", "format">>

PartInit ==
    /\ part \in {"camera", "bridge", "lens"}
    /\ Init /\ Bridge!Init /\ Lens!Init
    /\ part # "lens" => lStep = lLens /\ lStep = CHOOSE s \in LensSteps : TRUE

CameraMoves == part = "camera" /\ Next /\ UNCHANGED <<part, bridgeVars, lensVars>>
BridgeMoves == part = "bridge" /\ Bridge!Next /\ UNCHANGED <<part, vars, lensVars>>
LensMoves == part = "lens" /\ Lens!Next /\ UNCHANGED <<part, vars, bridgeVars>>

PartSpec ==
    /\ PartInit
    /\ [][CameraMoves \/ BridgeMoves \/ LensMoves]_<<part, vars, bridgeVars, lensVars>>
    /\ part = "camera" => Fairness
    /\ part = "bridge" => Bridge!Fairness

\* Types of all registers.
TypesOK == TypeOK /\ Bridge!TypeOK /\ Lens!TypeOK

\* Never two engines of a master at work on the wires, although a reset of
\* the sequencer leaves a running engine alone (MIPI_CAMERA_CONFIG.v:94-107,
\* MIPI_BRIDGE_CONFIG.v:91-109, VCM_I2C.v:46-68).
OneEngineEach == OneEngineOnTheWires /\ Bridge!OneEngineOnTheWires /\ Lens!OneEngine

\* What goes over the wires is the table: a master lets the next one go only
\* when its slave has taken every word, in order, with the pauses between
\* (MIPI_CAMERA_CONFIG.v:154-187, MIPI_BRIDGE_CONFIG.v:158-211).
TablesSent == TableSent /\ Bridge!SentInOrder /\ Bridge!QuietPauses

\* With the key left alone and slaves that answer, both tables are sent in
\* the end.
BothConfigured ==
    /\ part = "camera" => ConfiguredInTheEnd
    /\ part = "bridge" => Bridge!ConfiguredInTheEnd

\* Each frame's step reaches the lens within that frame, and no step that
\* F_VCM has already left ever does (VCM_I2C.v:113-187).
LensOnTime == Lens!LensOnTime
=============================================================================
