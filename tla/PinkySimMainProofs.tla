------------------------- MODULE PinkySimMainProofs -------------------------
(***************************************************************************)
(* The process of PinkySimMain, for all sessions, any number of GDBs and   *)
(* any number of failing calls of the host: at each place of the code, the *)
(* handlers are those of the try blocks around it and what is held is what *)
(* its catch blocks will release.                                          *)
(***************************************************************************)
EXTENDS PinkySimMain, SequenceTheorems, FiniteSetTheorems, WellFoundedInduction, TLAPS

Handlers ==
    {"catchMain", "catchCommandLine", "catchLoadImage", "catchSocket", "catchArguments",
     "catchCoverage", "catchRun", "catchParse", "catchElfLines"}

(* The stacks of handlers, by the innermost function with a try block.     *)
NoTry        == << >>
InMain       == <<"catchMain">> \o NoTry
InParse      == <<"catchCommandLine">> \o InMain
InLoadImage  == <<"catchLoadImage">> \o InParse
InSocketInit == <<"catchSocket">> \o InMain
InCopy       == <<"catchArguments">> \o InMain
InCoverage   == <<"catchCoverage">> \o InMain
InRun        == <<"catchRun">> \o InCoverage
InParseElf   == <<"catchParse">> \o InRun
InElfLines   == <<"catchElfLines">> \o InParseElf

IsPushed(stack, handler, below) ==
    /\ <<handler>> \o below = stack
    /\ stack # << >> /\ Head(stack) = handler /\ Tail(stack) = below

\* What is pushed is popped again, and what is below it is found again.
LEMMA PushAndPop ==
    ASSUME NEW handler \in Handlers, NEW below \in Seq(Handlers)
    PROVE  /\ <<handler>> \o below \in Seq(Handlers)
           /\ <<handler>> \o below # << >>
           /\ Head(<<handler>> \o below) = handler
           /\ Tail(<<handler>> \o below) = below
<1> DEFINE one   == <<handler>>
           stack == one \o below
<1>1. one \in Seq(Handlers) /\ Len(one) = 1 /\ one[1] = handler
  OBVIOUS
<1>2. /\ stack \in Seq(Handlers) /\ Len(stack) = 1 + Len(below)
      /\ \A i \in 1 .. 1 + Len(below) : stack[i] = IF i <= 1 THEN one[i] ELSE below[i - 1]
  <2> HIDE DEF one
  <2>1. /\ stack \in Seq(Handlers) /\ Len(stack) = Len(one) + Len(below)
        /\ \A i \in 1 .. Len(one) + Len(below) :
               stack[i] = IF i <= Len(one) THEN one[i] ELSE below[i - Len(one)]
    BY <1>1, ConcatProperties, Zenon
  <2> HIDE DEF stack
  <2>2. QED
    BY <1>1, <2>1
<1>3. Len(below) \in Nat
  BY LenProperties
<1>4. stack # << >> /\ stack[1] = handler
  <2> HIDE DEF one, stack
  <2>1. QED
    BY <1>1, <1>2, <1>3
<1>5. Head(stack) = handler
  <2> HIDE DEF stack
  <2>1. Head(stack) = stack[1]
    BY <1>2, <1>4
  <2>2. QED
    BY <1>4, <2>1
<1>6. /\ Tail(stack) \in Seq(Handlers) /\ Len(Tail(stack)) = Len(stack) - 1
      /\ \A i \in 1 .. Len(Tail(stack)) : Tail(stack)[i] = stack[i + 1]
  <2> HIDE DEF stack
  <2>1. QED
    BY <1>2, <1>4, HeadTailProperties
<1>7. Tail(stack) = below
  <2> DEFINE rest == Tail(stack)
  <2>1. Len(rest) = Len(below)
    <3> HIDE DEF stack, rest
    <3>1. QED
      BY <1>2, <1>3, <1>6 DEF rest
  <2>2. \A i \in 1 .. Len(rest) : rest[i] = below[i]
    <3>1. SUFFICES ASSUME NEW i \in 1 .. Len(rest)
                   PROVE  rest[i] = below[i]
      OBVIOUS
    <3>2. rest[i] = stack[i + 1]
      BY <1>6
    <3>3. i + 1 \in 1 .. 1 + Len(below) /\ ~(i + 1 <= 1) /\ (i + 1) - 1 = i
      <4> HIDE DEF rest
      <4>1. QED
        BY <1>3, <2>1
    <3>4. stack[i + 1] = below[(i + 1) - 1]
      <4> HIDE DEF stack
      <4>1. QED
        BY <1>2, <3>3
    <3>5. QED
      BY <3>2, <3>3, <3>4
  <2>3. rest \in Seq(Handlers)
    BY <1>6
  <2> HIDE DEF rest
  <2>4. rest = below
    BY <2>1, <2>2, <2>3, SeqEqual
  <2>5. QED
    BY <2>4 DEF rest
<1>8. QED
  BY <1>2, <1>4, <1>5, <1>7

\* The same, as one fact.
LEMMA PushIs ==
    ASSUME NEW handler \in Handlers, NEW below \in Seq(Handlers)
    PROVE  /\ <<handler>> \o below \in Seq(Handlers)
           /\ IsPushed(<<handler>> \o below, handler, below)
BY PushAndPop DEF IsPushed

\* The handlers of the innermost function are those of the one around it, and
\* one more.
LEMMA Stacks ==
    /\ IsPushed(InMain, "catchMain", NoTry)
    /\ IsPushed(InParse, "catchCommandLine", InMain)
    /\ IsPushed(InLoadImage, "catchLoadImage", InParse)
    /\ IsPushed(InSocketInit, "catchSocket", InMain)
    /\ IsPushed(InCopy, "catchArguments", InMain)
    /\ IsPushed(InCoverage, "catchCoverage", InMain)
    /\ IsPushed(InRun, "catchRun", InCoverage)
    /\ IsPushed(InParseElf, "catchParse", InRun)
    /\ IsPushed(InElfLines, "catchElfLines", InParseElf)
<1>1. NoTry \in Seq(Handlers)
  BY DEF NoTry
<1>2. InMain \in Seq(Handlers) /\ IsPushed(InMain, "catchMain", NoTry)
  <2> HIDE DEF NoTry
  <2>1. "catchMain" \in Handlers
    BY DEF Handlers
  <2>2. QED
    BY <1>1, <2>1, PushIs, Zenon DEF InMain
<1>3. InParse \in Seq(Handlers) /\ IsPushed(InParse, "catchCommandLine", InMain)
  <2> HIDE DEF InMain
  <2>1. "catchCommandLine" \in Handlers
    BY DEF Handlers
  <2>2. QED
    BY <1>2, <2>1, PushIs, Zenon DEF InParse
<1>4. InLoadImage \in Seq(Handlers) /\ IsPushed(InLoadImage, "catchLoadImage", InParse)
  <2> HIDE DEF InParse
  <2>1. "catchLoadImage" \in Handlers
    BY DEF Handlers
  <2>2. QED
    BY <1>3, <2>1, PushIs, Zenon DEF InLoadImage
<1>5. InSocketInit \in Seq(Handlers) /\ IsPushed(InSocketInit, "catchSocket", InMain)
  <2> HIDE DEF InMain
  <2>1. "catchSocket" \in Handlers
    BY DEF Handlers
  <2>2. QED
    BY <1>2, <2>1, PushIs, Zenon DEF InSocketInit
<1>6. InCopy \in Seq(Handlers) /\ IsPushed(InCopy, "catchArguments", InMain)
  <2> HIDE DEF InMain
  <2>1. "catchArguments" \in Handlers
    BY DEF Handlers
  <2>2. QED
    BY <1>2, <2>1, PushIs, Zenon DEF InCopy
<1>7. InCoverage \in Seq(Handlers) /\ IsPushed(InCoverage, "catchCoverage", InMain)
  <2> HIDE DEF InMain
  <2>1. "catchCoverage" \in Handlers
    BY DEF Handlers
  <2>2. QED
    BY <1>2, <2>1, PushIs, Zenon DEF InCoverage
<1>8. InRun \in Seq(Handlers) /\ IsPushed(InRun, "catchRun", InCoverage)
  <2> HIDE DEF InCoverage
  <2>1. "catchRun" \in Handlers
    BY DEF Handlers
  <2>2. QED
    BY <1>7, <2>1, PushIs, Zenon DEF InRun
<1>9. InParseElf \in Seq(Handlers) /\ IsPushed(InParseElf, "catchParse", InRun)
  <2> HIDE DEF InRun
  <2>1. "catchParse" \in Handlers
    BY DEF Handlers
  <2>2. QED
    BY <1>8, <2>1, PushIs, Zenon DEF InParseElf
<1>10. InElfLines \in Seq(Handlers) /\ IsPushed(InElfLines, "catchElfLines", InParseElf)
  <2> HIDE DEF InParseElf
  <2>1. "catchElfLines" \in Handlers
    BY DEF Handlers
  <2>2. QED
    BY <1>9, <2>1, PushIs, Zenon DEF InElfLines
<1>11. QED
  BY <1>2, <1>3, <1>4, <1>5, <1>6, <1>7, <1>8, <1>9, <1>10

-----------------------------------------------------------------------------
(* The places, by their handlers and by what may be held there.            *)

Lasting    == {"restrictPaths"}
OfImage    == Lasting \cup {"imageFile", "imageBuffer"}
OfCoverage == Lasting \cup CoverageResources
OfElfLines == OfCoverage \cup {"pipe"}

OutsidePlaces  == {"main", "catchMain", "uninit"}
BeforePlaces   == {"commandLine", "catchCommandLine", "listen", "catchSocket"}
ParsePlaces    == {"parse", "parsed"}
ImagePlaces    == {"catchLoadImage"}
LoadPlaces     == {"openImage", "sizeImage", "allocateImage", "readImage", "loadImage",
                   "releaseImage"}
SocketPlaces   == {"createSocket", "bind", "listening"}
RunPlaces      == {"mri4simInit", "catchArguments", "run", "step", "isExit", "exception",
                   "semihost", "writeConsole", "readFromFile", "packet", "send", "acknowledge",
                   "command", "resume", "advance"}
CopyPlaces     == {"copyArguments", "copied"}
RanPlaces      == {"ran", "endMain", "catchCoverage"}
CoverPlaces    == {"codeCoverageRun", "rethrowRun", "endCoverage"}
CatchPlaces    == {"catchRun"}
WalkPlaces     == {"initPrivateData", "parseElf", "catchParse", "openSummary", "walk",
                   "openSource", "readSource", "openDest", "lines", "uninitPrivateData"}
WalkedPlaces   == {"endRun"}
ParseElfPlaces == {"elfLinesParse", "parsedElf"}
CatchElfPlaces == {"catchElfLines"}
ElfPlaces      == {"openPipe", "allocateElfLines", "readElf"}
EndPlaces      == {"brokenPipe", "asserted", "crashed"}

(* The sockets of the host are those that g_comm knows of; it has none when  *)
(* main has no pointer to it, but while it is set up.                        *)
IsGdb(gdb) ==
    gdb = [script |-> gdb.script, sent |-> gdb.sent, read |-> gdb.read, stage |-> gdb.stage,
           hungUp |-> gdb.hungUp, got |-> gdb.got]

AreGdbs(list) ==
    /\ list = [i \in DOMAIN list |-> list[i]]
    /\ DOMAIN list \subseteq Nat \ {0}
    /\ \A i \in DOMAIN list : IsGdb(list[i]) /\ list[i].got \in Seq(Nat)
Gdbs == AreGdbs(gdbs)

Descriptors ==
    /\ listenSocket \in BOOLEAN
    /\ gdbSocket = 0 \/ gdbSocket \in DOMAIN gdbs
    /\ descriptors = KnownSockets

InitPlaces == {"bind", "listening", "catchSocket"}

\* While main has no pointer to them, there are none, or they are being set up.
SocketsInv ==
    /\ Gdbs /\ Descriptors
    /\ pComm \in {"null", "g_comm", "lost"}
    /\ pComm = "null" => gdbSocket = 0
    /\ pComm = "null" /\ listenSocket => at \in InitPlaces

IsClosed == pComm # "lost" => ~listenSocket /\ gdbSocket = 0

\* The handlers at a place, what may be held there, and whether main has its socket.
Track(place, handlers, resources) ==
    \/ place \in OutsidePlaces /\ handlers = NoTry /\ resources \subseteq Lasting
    \/ place \in BeforePlaces /\ handlers = InMain /\ resources \subseteq Lasting
    \/ place \in ParsePlaces /\ handlers = InParse /\ resources \subseteq Lasting
    \/ place \in ImagePlaces /\ handlers = InParse /\ resources \subseteq OfImage
    \/ place \in LoadPlaces /\ handlers = InLoadImage /\ resources \subseteq OfImage
    \/ place \in SocketPlaces /\ handlers = InSocketInit /\ resources \subseteq Lasting
    \/ place \in RunPlaces /\ handlers = InMain /\ resources \subseteq Lasting /\ pComm = "g_comm"
    \/ place \in CopyPlaces /\ handlers = InCopy /\ resources \subseteq Lasting /\ pComm = "g_comm"
    \/ place \in RanPlaces /\ handlers = InMain /\ resources \subseteq Lasting
    \/ place \in CoverPlaces /\ handlers = InCoverage /\ resources \subseteq Lasting
    \/ place \in CatchPlaces /\ handlers = InCoverage /\ resources \subseteq OfCoverage
    \/ place \in WalkPlaces /\ handlers = InRun /\ resources \subseteq OfCoverage
    \/ place \in WalkedPlaces /\ handlers = InRun /\ resources \subseteq Lasting
    \/ place \in ParseElfPlaces /\ handlers = InParseElf /\ resources \subseteq OfCoverage
    \/ place \in CatchElfPlaces /\ handlers = InParseElf /\ resources \subseteq OfElfLines
    \/ place \in ElfPlaces /\ handlers = InElfLines /\ resources \subseteq OfElfLines
    \/ place \in EndPlaces /\ handlers \in {InMain, InRun, InCoverage}
    \/ place = "exited" /\ handlers = NoTry /\ resources = {} /\ regions = << >> /\ IsClosed

HasShape == exceptions = [code |-> exceptions.code, handlers |-> exceptions.handlers]

\* The process has the handlers, and holds what, its place says.
ProcessInv ==
    /\ HasShape
    /\ Track(at, exceptions.handlers, held)

\* A throw and the end of a try leave the innermost try.
Unwinds(handler, below) ==
    /\ \A exception : Throw(exception) =>
           at' = handler /\ HasShape' /\ exceptions'.handlers = below
    /\ \A place : EndTry(place) =>
           (at' = place \/ at' = handler) /\ HasShape' /\ exceptions'.handlers = below

\* A throw and the end of a try, when one handler is on top of others.
LEMMA UnwindingOne ==
    ASSUME NEW stack, NEW handler, NEW below, IsPushed(stack, handler, below),
           HasShape, exceptions.handlers = stack
    PROVE  Unwinds(handler, below)
<1>1. ASSUME NEW exception, Throw(exception)
      PROVE  at' = handler /\ HasShape' /\ exceptions'.handlers = below
  <2>1. exceptions.handlers # << >>
    BY DEF IsPushed
  <2>2. /\ exceptions' = [code |-> SetExceptionCode(exceptions.code, exception),
                           handlers |-> Tail(exceptions.handlers)]
        /\ at' = Head(exceptions.handlers)
    BY <1>1, <2>1, Zenon DEF Throw
  <2>3. QED
    BY <2>2 DEF HasShape, IsPushed
<1>2. ASSUME NEW place, EndTry(place)
      PROVE  (at' = place \/ at' = handler) /\ HasShape' /\ exceptions'.handlers = below
  BY <1>2 DEF EndTry, HasShape, IsPushed
<1>3. QED
  BY <1>1, <1>2, Zenon DEF Unwinds

\* Where a throw and the end of a try go to, for each of the stacks.
LEMMA Unwinding ==
    ASSUME HasShape
    PROVE  /\ exceptions.handlers = InMain => Unwinds("catchMain", NoTry)
           /\ exceptions.handlers = InParse => Unwinds("catchCommandLine", InMain)
           /\ exceptions.handlers = InLoadImage => Unwinds("catchLoadImage", InParse)
           /\ exceptions.handlers = InSocketInit => Unwinds("catchSocket", InMain)
           /\ exceptions.handlers = InCopy => Unwinds("catchArguments", InMain)
           /\ exceptions.handlers = InCoverage => Unwinds("catchCoverage", InMain)
           /\ exceptions.handlers = InRun => Unwinds("catchRun", InCoverage)
           /\ exceptions.handlers = InParseElf => Unwinds("catchParse", InRun)
           /\ exceptions.handlers = InElfLines => Unwinds("catchElfLines", InParseElf)
BY Stacks, UnwindingOne

\* A try enters it.
Enters(handler, within) ==
    \A place : Try(handler, place) => at' = place /\ HasShape' /\ exceptions'.handlers = within

\* A try, when its handler is pushed on the others.
LEMMA EnteringOne ==
    ASSUME NEW stack, NEW handler, NEW below, IsPushed(stack, handler, below),
           exceptions.handlers = below
    PROVE  Enters(handler, stack)
<1>1. ASSUME NEW place, Try(handler, place)
      PROVE  at' = place /\ HasShape' /\ exceptions'.handlers = stack
  BY <1>1 DEF Try, HasShape, IsPushed
<1>2. QED
  BY <1>1, Zenon DEF Enters

\* The tries that the code has, and the stacks they make.
LEMMA Entering ==
    /\ exceptions.handlers = NoTry => Enters("catchMain", InMain)
    /\ exceptions.handlers = InMain =>
         /\ Enters("catchCommandLine", InParse) /\ Enters("catchSocket", InSocketInit)
         /\ Enters("catchArguments", InCopy) /\ Enters("catchCoverage", InCoverage)
    /\ exceptions.handlers = InParse => Enters("catchLoadImage", InLoadImage)
    /\ exceptions.handlers = InCoverage => Enters("catchRun", InRun)
    /\ exceptions.handlers = InRun => Enters("catchParse", InParseElf)
    /\ exceptions.handlers = InParseElf => Enters("catchElfLines", InElfLines)
BY Stacks, EnteringOne

USE DEF At, Goes, Rethrow, Fails, Works, Acquire, Release,
        TriedAndFailed, TriedAndPassed, noException

\* What is known at a place.
LEMMA Leaves ==
    ASSUME ProcessInv
    PROVE  /\ HasShape
           /\ at \in OutsidePlaces =>
                exceptions.handlers = NoTry /\ held \subseteq Lasting
           /\ at \in BeforePlaces =>
                exceptions.handlers = InMain /\ held \subseteq Lasting
           /\ at \in ParsePlaces =>
                exceptions.handlers = InParse /\ held \subseteq Lasting
           /\ at \in ImagePlaces =>
                exceptions.handlers = InParse /\ held \subseteq OfImage
           /\ at \in LoadPlaces =>
                exceptions.handlers = InLoadImage /\ held \subseteq OfImage
           /\ at \in SocketPlaces =>
                exceptions.handlers = InSocketInit /\ held \subseteq Lasting
           /\ at \in RunPlaces =>
                exceptions.handlers = InMain /\ held \subseteq Lasting /\ pComm = "g_comm"
           /\ at \in CopyPlaces =>
                exceptions.handlers = InCopy /\ held \subseteq Lasting /\ pComm = "g_comm"
           /\ at \in RanPlaces =>
                exceptions.handlers = InMain /\ held \subseteq Lasting
           /\ at \in CoverPlaces =>
                exceptions.handlers = InCoverage /\ held \subseteq Lasting
           /\ at \in CatchPlaces =>
                exceptions.handlers = InCoverage /\ held \subseteq OfCoverage
           /\ at \in WalkPlaces =>
                exceptions.handlers = InRun /\ held \subseteq OfCoverage
           /\ at \in WalkedPlaces =>
                exceptions.handlers = InRun /\ held \subseteq Lasting
           /\ at \in ParseElfPlaces =>
                exceptions.handlers = InParseElf /\ held \subseteq OfCoverage
           /\ at \in CatchElfPlaces =>
                exceptions.handlers = InParseElf /\ held \subseteq OfElfLines
           /\ at \in ElfPlaces =>
                exceptions.handlers = InElfLines /\ held \subseteq OfElfLines
BY DEF ProcessInv, Track, OutsidePlaces, BeforePlaces, ParsePlaces, ImagePlaces, LoadPlaces,
       SocketPlaces, RunPlaces, CopyPlaces, RanPlaces, CoverPlaces, CatchPlaces, WalkPlaces,
       WalkedPlaces, ParseElfPlaces, CatchElfPlaces, ElfPlaces, EndPlaces

\* Parsing the command line and loading the image keeps the process tracked.
LEMMA CommandLineTracks ==
    ASSUME ProcessInv, CommandLineStep
    PROVE  ProcessInv' /\ at' # "send"
<1>1. CASE BeginCommandLine
  BY <1>1, Leaves, Entering, Unwinding DEF ProcessInv, Track, Unwinds, HasShape, BeforePlaces,
     ParsePlaces, Lasting, BeginCommandLine, Enters
<1>2. CASE ParseFlashOption
  BY <1>2, Leaves, Unwinding DEF ProcessInv, Track, Unwinds, HasShape, ParsePlaces, BeforePlaces,
     Lasting, ParseFlashOption, ParseRegionOption, Flag, Uses
<1>3. CASE ParseRamOption
  BY <1>3, Leaves, Unwinding DEF ProcessInv, Track, Unwinds, HasShape, ParsePlaces, BeforePlaces,
     Lasting, ParseRamOption, ParseRegionOption, Flag, Uses
<1>4. CASE ParseBreakOnStartOption
  BY <1>4, Leaves, Unwinding DEF ProcessInv, Track, Unwinds, HasShape, ParsePlaces, Lasting,
     ParseBreakOnStartOption, Flag, Uses
<1>5. CASE ParseGdbPortOption
  BY <1>5, Leaves, Unwinding DEF ProcessInv, Track, Unwinds, HasShape, ParsePlaces, Lasting,
     ParseGdbPortOption, Flag, Uses
<1>6. CASE ParseCodeCovOption
  BY <1>6, Leaves, Unwinding DEF ProcessInv, Track, Unwinds, HasShape, ParsePlaces, Lasting,
     ParseCodeCovOption, Flag, Uses
<1>7. CASE ParseRestrictOption
  BY <1>7, Leaves, Unwinding DEF ProcessInv, Track, Unwinds, HasShape, ParsePlaces, BeforePlaces,
     Lasting, ParseRestrictOption, Flag, Uses
<1>8. CASE RefuseArgument
  BY <1>8, Leaves, Unwinding DEF ProcessInv, Track, Unwinds, HasShape, ParsePlaces, BeforePlaces,
     Lasting, RefuseArgument
<1>9. CASE ParseFilenameArgument
  BY <1>9, Leaves, Unwinding DEF ProcessInv, Track, Unwinds, HasShape, ParsePlaces, Lasting,
     ParseFilenameArgument, Uses
<1>10. CASE CheckRequiredArguments
  <2>1. exceptions.handlers = InParse /\ held' = held /\ held \subseteq Lasting /\ HasShape
    BY <1>10, Leaves DEF CheckRequiredArguments, ParsePlaces
  <2>2. CASE Throw(invalidArgumentException)
    BY <2>1, <2>2, Unwinding DEF ProcessInv, Track, Unwinds, BeforePlaces
  <2>3. CASE Try("catchLoadImage", "openImage")
    BY <2>1, <2>3, Entering DEF ProcessInv, Track, Enters, LoadPlaces, OfImage
  <2>4. QED
    BY <1>10, <2>2, <2>3 DEF CheckRequiredArguments
<1>11. CASE OpenImage
  BY <1>11, Leaves, Unwinding DEF ProcessInv, Track, Unwinds, HasShape, LoadPlaces, ImagePlaces,
     Lasting, OfImage, OpenImage
<1>12. CASE SizeImage
  BY <1>12, Leaves, Unwinding DEF ProcessInv, Track, Unwinds, HasShape, LoadPlaces, ImagePlaces,
     Lasting, OfImage, SizeImage
<1>13. CASE AllocateImage
  BY <1>13, Leaves, Unwinding DEF ProcessInv, Track, Unwinds, HasShape, LoadPlaces, ImagePlaces,
     Lasting, OfImage, AllocateImage
<1>14. CASE ReadImage
  BY <1>14, Leaves, Unwinding DEF ProcessInv, Track, Unwinds, HasShape, LoadPlaces, ImagePlaces,
     Lasting, OfImage, ReadImage
<1>15. CASE LoadFromFlashImage
  BY <1>15, Leaves, Unwinding DEF ProcessInv, Track, Unwinds, HasShape, LoadPlaces, ImagePlaces,
     Lasting, OfImage, LoadFromFlashImage
<1>16. CASE CreateRegionsFromFlashImage
  BY <1>16, Leaves, Unwinding DEF ProcessInv, Track, Unwinds, HasShape, LoadPlaces, ImagePlaces,
     Lasting, OfImage, CreateRegionsFromFlashImage
<1>17. CASE ReleaseImage
  BY <1>17, Leaves, Unwinding DEF ProcessInv, Track, Unwinds, HasShape, LoadPlaces, ParsePlaces,
     ImagePlaces, Lasting, OfImage, ReleaseImage
<1>18. CASE CatchLoadImage
  BY <1>18, Leaves, Unwinding DEF ProcessInv, Track, Unwinds, HasShape, ImagePlaces, BeforePlaces,
     Lasting, OfImage, CatchLoadImage
<1>19. CASE EndCommandLine
  BY <1>19, Leaves, Unwinding DEF ProcessInv, Track, Unwinds, HasShape, ParsePlaces, BeforePlaces,
     Lasting, EndCommandLine
<1>20. CASE CatchCommandLine
  BY <1>20, Leaves, Unwinding DEF ProcessInv, Track, Unwinds, HasShape, BeforePlaces, OutsidePlaces,
     Lasting, CatchCommandLine
<1>21. QED
  BY <1>1, <1>2, <1>3, <1>4, <1>5, <1>6, <1>7, <1>8, <1>9, <1>10, <1>11, <1>12, <1>13, <1>14, <1>15,
     <1>16, <1>17, <1>18, <1>19, <1>20 DEF CommandLineStep

\* So does the code coverage.
LEMMA CoverageTracks ==
    ASSUME ProcessInv, CoverageStep
    PROVE  ProcessInv' /\ at' # "send"
<1>1. CASE RunCodeCoverageIfRequested
  <2>1. exceptions.handlers = InMain /\ held' = held /\ held \subseteq Lasting /\ HasShape
    BY <1>1, Leaves DEF RunCodeCoverageIfRequested, Covers, RanPlaces
  <2>2. CASE EndTry("uninit")
    BY <2>1, <2>2, Unwinding DEF ProcessInv, Track, Unwinds, OutsidePlaces
  <2>3. CASE Try("catchCoverage", "codeCoverageRun")
    BY <2>1, <2>3, Entering DEF ProcessInv, Track, Enters, CoverPlaces
  <2>4. QED
    BY <1>1, <2>2, <2>3 DEF RunCodeCoverageIfRequested
<1>2. CASE CodeCoverageRun
  BY <1>2, Leaves, Entering, Unwinding DEF ProcessInv, Track, Unwinds, HasShape, CoverPlaces,
     WalkPlaces, Lasting, OfCoverage, CoverageResources, CodeCoverageRun, Covers, Keeps, Enters
<1>3. CASE InitPrivateData
  BY <1>3, Leaves, Unwinding DEF ProcessInv, Track, Unwinds, HasShape, WalkPlaces, CatchPlaces,
     Lasting, OfCoverage, CoverageResources, InitPrivateData, Covers, Keeps
<1>4. CASE ParseElf
  BY <1>4, Leaves, Entering, Unwinding DEF ProcessInv, Track, Unwinds, HasShape, WalkPlaces,
     ParseElfPlaces, Lasting, OfCoverage, CoverageResources, ParseElf, Covers, Keeps, Enters
<1>5. CASE ElfLinesParse
  BY <1>5, Leaves, Entering, Unwinding DEF ProcessInv, Track, Unwinds, HasShape, ParseElfPlaces,
     ElfPlaces, Lasting, OfCoverage, CoverageResources, OfElfLines, ElfLinesParse, Covers, Keeps,
     Enters
<1>6. CASE OpenPipe
  BY <1>6, Leaves, Unwinding DEF ProcessInv, Track, Unwinds, HasShape, ElfPlaces, CatchElfPlaces,
     Lasting, OfElfLines, OfCoverage, CoverageResources, OpenPipe, Covers, Keeps
<1>7. CASE AllocateElfLines
  BY <1>7, Leaves, Unwinding DEF ProcessInv, Track, Unwinds, HasShape, ElfPlaces, CatchElfPlaces,
     Lasting, OfElfLines, OfCoverage, CoverageResources, AllocateElfLines, Covers, Keeps
<1>8. CASE ParseElfLine
  BY <1>8, Leaves, Unwinding DEF ProcessInv, Track, Unwinds, HasShape, ElfPlaces, CatchElfPlaces,
     Lasting, OfElfLines, OfCoverage, CoverageResources, ParseElfLine, Covers, Keeps
<1>9. CASE SortElfLines
  BY <1>9, Leaves, Unwinding DEF ProcessInv, Track, Unwinds, HasShape, ElfPlaces, ParseElfPlaces,
     CatchElfPlaces, Lasting, OfElfLines, OfCoverage, CoverageResources, SortElfLines, Covers, Keeps
<1>10. CASE CatchElfLines
  BY <1>10, Leaves, Unwinding DEF ProcessInv, Track, Unwinds, HasShape, CatchElfPlaces,
     ParseElfPlaces, Lasting, OfElfLines, OfCoverage, CoverageResources, CatchElfLines, Covers,
     Keeps
<1>11. CASE EndParseElf
  BY <1>11, Leaves, Unwinding DEF ProcessInv, Track, Unwinds, HasShape, ParseElfPlaces, WalkPlaces,
     Lasting, OfCoverage, CoverageResources, EndParseElf, Covers, Keeps
<1>12. CASE CatchParse
  BY <1>12, Leaves, Unwinding DEF ProcessInv, Track, Unwinds, HasShape, WalkPlaces, CatchPlaces,
     Lasting, OfCoverage, CoverageResources, CatchParse, Covers, Keeps
<1>13. CASE OpenSummary
  BY <1>13, Leaves, Unwinding DEF ProcessInv, Track, Unwinds, HasShape, WalkPlaces, CatchPlaces,
     Lasting, OfCoverage, CoverageResources, OpenSummary, Covers, Keeps
<1>14. CASE WalkEnds
  BY <1>14, Leaves, Unwinding DEF ProcessInv, Track, Unwinds, HasShape, WalkPlaces, Lasting,
     OfCoverage, CoverageResources, WalkEnds, Covers, Keeps
<1>15. CASE WalkSourceFile
  BY <1>15, Leaves, Unwinding DEF ProcessInv, Track, Unwinds, HasShape, WalkPlaces, Lasting,
     OfCoverage, CoverageResources, WalkSourceFile, Covers, Keeps
<1>16. CASE OpenSource
  BY <1>16, Leaves, Unwinding DEF ProcessInv, Track, Unwinds, HasShape, WalkPlaces, CatchPlaces,
     Lasting, OfCoverage, CoverageResources, OpenSource, Covers, Keeps
<1>17. CASE ReadSource
  BY <1>17, Leaves, Unwinding DEF ProcessInv, Track, Unwinds, HasShape, WalkPlaces, CatchPlaces,
     Lasting, OfCoverage, CoverageResources, ReadSource, Covers, Keeps
<1>18. CASE OpenDest
  BY <1>18, Leaves, Unwinding DEF ProcessInv, Track, Unwinds, HasShape, WalkPlaces, CatchPlaces,
     Lasting, OfCoverage, CoverageResources, OpenDest, Covers, Keeps
<1>19. CASE WriteLine
  BY <1>19, Leaves, Unwinding DEF ProcessInv, Track, Unwinds, HasShape, WalkPlaces, CatchPlaces,
     Lasting, OfCoverage, CoverageResources, WriteLine, Covers, Keeps
<1>20. CASE EndOfSource
  BY <1>20, Leaves, Unwinding DEF ProcessInv, Track, Unwinds, HasShape, WalkPlaces, EndPlaces,
     Lasting, OfCoverage, CoverageResources, EndOfSource, Covers, Keeps
<1>21. CASE UninitAfterWalk
  BY <1>21, Leaves, Unwinding DEF ProcessInv, Track, Unwinds, HasShape, WalkPlaces, WalkedPlaces,
     EndPlaces, Lasting, OfCoverage, CoverageResources, UninitAfterWalk, UninitPrivateData, Covers,
     Keeps
<1>22. CASE EndRun
  BY <1>22, Leaves, Unwinding DEF ProcessInv, Track, Unwinds, HasShape, WalkedPlaces, CoverPlaces,
     CatchPlaces, Lasting, OfCoverage, CoverageResources, EndRun, Covers, Keeps
<1>23. CASE CatchRun
  BY <1>23, Leaves, Unwinding DEF ProcessInv, Track, Unwinds, HasShape, CatchPlaces, CoverPlaces,
     EndPlaces, Lasting, OfCoverage, CoverageResources, CatchRun, UninitPrivateData, Covers, Keeps
<1>24. CASE RethrowRun
  BY <1>24, Leaves, Unwinding DEF ProcessInv, Track, Unwinds, HasShape, CoverPlaces, RanPlaces,
     Lasting, RethrowRun, Covers, Keeps
<1>25. CASE EndCoverage
  BY <1>25, Leaves, Unwinding DEF ProcessInv, Track, Unwinds, HasShape, CoverPlaces, RanPlaces,
     Lasting, EndCoverage, Covers, Keeps
<1>26. CASE CatchCoverage
  BY <1>26, Leaves, Unwinding DEF ProcessInv, Track, Unwinds, HasShape, RanPlaces, OutsidePlaces,
     Lasting, CatchCoverage, Covers, Keeps
<1>27. QED
  BY <1>1, <1>2, <1>3, <1>4, <1>5, <1>6, <1>7, <1>8, <1>9, <1>10, <1>11, <1>12, <1>13, <1>14, <1>15,
     <1>16, <1>17, <1>18, <1>19, <1>20, <1>21, <1>22, <1>23, <1>24, <1>25, <1>26 DEF CoverageStep

\* So do the calls of the host that the program makes.
LEMMA SemihostTracks ==
    ASSUME ProcessInv, SemihostStep,
           UNCHANGED thread
    PROVE  ProcessInv' /\ at' # "send"
<1>1. CASE HandleWriteRequest
  BY <1>1, Leaves, Unwinding DEF ProcessInv, Track, Unwinds, HasShape, RunPlaces, Lasting,
     HandleWriteRequest, Serves, HostAnswers, thread
<1>2. CASE WriteToConsole
  BY <1>2, Leaves, Unwinding DEF ProcessInv, Track, Unwinds, HasShape, RunPlaces, OutsidePlaces,
     Lasting, WriteToConsole, AsksGdb, IsGdbConnectedFails, thread
<1>3. CASE HandleReadRequest
  BY <1>3, Leaves, Unwinding DEF ProcessInv, Track, Unwinds, HasShape, RunPlaces, OutsidePlaces,
     Lasting, HandleReadRequest, Serves, AsksGdb, IsGdbConnectedFails, thread
<1>4. CASE ReadFromFile
  BY <1>4, Leaves, Unwinding DEF ProcessInv, Track, Unwinds, HasShape, RunPlaces, Lasting,
     ReadFromFile, Serves, HostAnswers, thread
<1>5. CASE HandleOpenRequest
  BY <1>5, Leaves, Unwinding DEF ProcessInv, Track, Unwinds, HasShape, RunPlaces, Lasting,
     HandleOpenRequest, Serves, HostAnswers, thread
<1>6. CASE HandleUnlinkRequest
  BY <1>6, Leaves, Unwinding DEF ProcessInv, Track, Unwinds, HasShape, RunPlaces, Lasting,
     HandleUnlinkRequest, Serves, HostAnswers, thread
<1>7. CASE HandleRenameRequest
  BY <1>7, Leaves, Unwinding DEF ProcessInv, Track, Unwinds, HasShape, RunPlaces, Lasting,
     HandleRenameRequest, Serves, HostAnswers, thread
<1>8. CASE HandleFStatRequest
  BY <1>8, Leaves, Unwinding DEF ProcessInv, Track, Unwinds, HasShape, RunPlaces, Lasting,
     HandleFStatRequest, Serves, HostAnswers, thread
<1>9. CASE HandleStatRequest
  BY <1>9, Leaves, Unwinding DEF ProcessInv, Track, Unwinds, HasShape, RunPlaces, Lasting,
     HandleStatRequest, Serves, HostAnswers, thread
<1>10. CASE HandleLSeekRequest
  BY <1>10, Leaves, Unwinding DEF ProcessInv, Track, Unwinds, HasShape, RunPlaces, Lasting,
     HandleLSeekRequest, Serves, HostAnswersAtOnce, thread
<1>11. CASE HandleCloseRequest
  BY <1>11, Leaves, Unwinding DEF ProcessInv, Track, Unwinds, HasShape, RunPlaces, Lasting,
     HandleCloseRequest, Serves, HostAnswersAtOnce, thread
<1>12. QED
  BY <1>1, <1>2, <1>3, <1>4, <1>5, <1>6, <1>7, <1>8, <1>9, <1>10, <1>11 DEF SemihostStep

\* So do main and the run loop; only they send packets.
LEMMA MainTracks ==
    ASSUME ProcessInv, MainStep, SocketsInv
    PROVE  ProcessInv' /\ (at' = "send" => BeginPacket \/ SendPacketChar)
<1>1. CASE BeginMain
  BY <1>1, Leaves, Entering, Unwinding DEF ProcessInv, Track, Unwinds, HasShape, OutsidePlaces,
     BeforePlaces, Lasting, BeginMain, KeepsFiles, thread, Enters
<1>2. CASE SocketCommInit
  BY <1>2, Leaves, Entering, Unwinding DEF ProcessInv, Track, Unwinds, HasShape, BeforePlaces,
     SocketPlaces, Lasting, SocketCommInit, KeepsFiles, thread, Enters
<1>3. CASE CreateSocket
  BY <1>3, Leaves, Unwinding DEF ProcessInv, Track, Unwinds, HasShape, SocketPlaces, BeforePlaces,
     Lasting, CreateSocket, KeepsFiles, thread
<1>4. CASE BindAndListen
  BY <1>4, Leaves, Unwinding DEF ProcessInv, Track, Unwinds, HasShape, SocketPlaces, BeforePlaces,
     Lasting, BindAndListen, KeepsFiles, thread
<1>5. CASE EndSocketInit
  BY <1>5, Leaves, Unwinding DEF ProcessInv, Track, Unwinds, HasShape, SocketPlaces, RunPlaces,
     BeforePlaces, Lasting, EndSocketInit, KeepsFiles, thread
<1>6. CASE CatchSocket
  BY <1>6, Leaves, Unwinding DEF ProcessInv, Track, Unwinds, HasShape, BeforePlaces, OutsidePlaces,
     Lasting, CatchSocket, KeepsFiles, thread
<1>7. CASE Mri4SimInit
  BY <1>7, Leaves, Entering, Unwinding DEF ProcessInv, Track, Unwinds, HasShape, RunPlaces,
     CopyPlaces, OutsidePlaces, Lasting, Mri4SimInit, KeepsFiles, thread, Enters
<1>8. CASE CopyCommandLineArgumentsToStack
  BY <1>8, Leaves, Unwinding DEF ProcessInv, Track, Unwinds, HasShape, CopyPlaces, RunPlaces,
     Lasting, CopyCommandLineArgumentsToStack, KeepsFiles, thread
<1>9. CASE EndCopy
  BY <1>9, Leaves, Unwinding DEF ProcessInv, Track, Unwinds, HasShape, CopyPlaces, RunPlaces,
     Lasting, EndCopy, KeepsFiles, thread
<1>10. CASE CatchArguments
  BY <1>10, Leaves, Unwinding DEF ProcessInv, Track, Unwinds, HasShape, RunPlaces, OutsidePlaces,
     Lasting, CatchArguments, KeepsFiles, thread
<1>11. CASE BreakOnStart
  BY <1>11, Leaves, Unwinding DEF ProcessInv, Track, Unwinds, HasShape, RunPlaces, Lasting,
     BreakOnStart, KeepsFiles, thread
<1>12. CASE ShouldInterruptRun
  BY <1>12, Leaves, Unwinding DEF ProcessInv, Track, Unwinds, HasShape, RunPlaces, OutsidePlaces,
     Lasting, ShouldInterruptRun, IsGdbConnectedFails, KeepsFiles, thread
<1>13. CASE PinkySimStep
  BY <1>13, Leaves, Unwinding DEF ProcessInv, Track, Unwinds, HasShape, RunPlaces, Lasting,
     PinkySimStep, InstructionIsRead, KeepsFiles, thread
<1>14. CASE IsExitSemihost
  BY <1>14, Leaves, Unwinding DEF ProcessInv, Track, Unwinds, HasShape, RunPlaces, RanPlaces,
     Lasting, IsExitSemihost, KeepsFiles, thread
<1>15. CASE EnteringDebugger
  BY <1>15, Leaves, Unwinding DEF ProcessInv, Track, Unwinds, HasShape, RunPlaces, Lasting,
     EnteringDebugger, Stopped, KeepsFiles, thread
<1>16. CASE BeginPacket
  BY <1>16, Leaves, Unwinding DEF ProcessInv, Track, Unwinds, HasShape, RunPlaces, Lasting,
     BeginPacket, Stopped, KeepsFiles, thread
<1>17. CASE SendPacketChar
  BY <1>17, Leaves, Unwinding DEF ProcessInv, Track, Unwinds, HasShape, RunPlaces, OutsidePlaces,
     EndPlaces, Lasting, SendPacketChar, Stopped, AcceptFails, TalkFails, KeepsFiles, thread
<1>18. CASE ReceiveFails
  BY <1>18, Leaves, Unwinding DEF ProcessInv, Track, Unwinds, HasShape, RunPlaces, OutsidePlaces,
     Lasting, ReceiveFails, Stopped, AcceptFails, TalkFails, KeepsFiles, thread
<1>19. CASE ReceiveAcknowledge
  BY <1>19, Leaves, Unwinding DEF ProcessInv, Track, Unwinds, HasShape, RunPlaces, Lasting,
     ReceiveAcknowledge, Stopped, KeepsFiles, thread
<1>20. CASE ReceiveCommand
  BY <1>20, Leaves, Unwinding DEF ProcessInv, Track, Unwinds, HasShape, RunPlaces, Lasting,
     ReceiveCommand, Stopped, KeepsFiles, thread
<1>21. CASE SkipHardcodedBreakpoint
  BY <1>21, Leaves, Unwinding DEF ProcessInv, Track, Unwinds, HasShape, RunPlaces, Lasting,
     SkipHardcodedBreakpoint, Stopped, KeepsFiles, thread
<1>22. CASE AdvanceProgramCounter
  BY <1>22, Leaves, Unwinding DEF ProcessInv, Track, Unwinds, HasShape, RunPlaces, Lasting,
     AdvanceProgramCounter, KeepsFiles, thread
<1>23. CASE EndMain
  BY <1>23, Leaves, Unwinding DEF ProcessInv, Track, Unwinds, HasShape, RanPlaces, OutsidePlaces,
     Lasting, EndMain, KeepsFiles, thread
<1>24. CASE CatchMain
  BY <1>24, Leaves, Unwinding DEF ProcessInv, Track, Unwinds, HasShape, OutsidePlaces, Lasting,
     CatchMain, KeepsFiles, thread
<1>25. CASE UninitMain
  <2>1. at = "uninit" /\ held \subseteq Lasting /\ exceptions.handlers = NoTry
    BY <1>25, Leaves DEF UninitMain, OutsidePlaces
  <2>2. /\ at' = "exited" /\ HasShape' /\ exceptions'.handlers = NoTry
        /\ regions' = << >> /\ held' = {}
    BY <1>25, <2>1, Leaves DEF UninitMain, UninitCommandLine, ReleaseRegions, HasShape, Lasting
  <2>3. IsClosed'
    <3>1. CASE pComm = "g_comm"
      BY <1>25, <3>1 DEF UninitMain, CloseSockets, IsClosed
    <3>2. CASE pComm = "lost"
      BY <1>25, <3>2 DEF UninitMain, IsClosed, thread
    <3>3. CASE pComm = "null"
      <4>1. gdbSocket = 0 /\ ~listenSocket
        BY <2>1, <3>3 DEF SocketsInv, InitPlaces
      <4>2. gdbSocket' = gdbSocket /\ listenSocket' = listenSocket
        BY <1>25, <3>3 DEF UninitMain, socket, comm
      <4>3. QED
        BY <4>1, <4>2 DEF IsClosed
    <3>4. QED
      BY <3>1, <3>2, <3>3 DEF SocketsInv
  <2>4. QED
    BY <2>2, <2>3 DEF ProcessInv, Track
<1>26. QED
  BY <1>1, <1>2, <1>3, <1>4, <1>5, <1>6, <1>7, <1>8, <1>9, <1>10, <1>11, <1>12, <1>13, <1>14, <1>15,
     <1>16, <1>17, <1>18, <1>19, <1>20, <1>21, <1>22, <1>23, <1>24, <1>25 DEF MainStep

-----------------------------------------------------------------------------
(* The operations on the sockets.                                          *)

\* A set of numbers has a lowest one, below which none is in it.
LEMMA HasLowest ==
    ASSUME NEW S, S \subseteq Nat, S # {}
    PROVE  \E m \in S : \A j \in S : m <= j
<1>1. IsWellFoundedOn(OpToRel(<, Nat), Nat)
  BY NatLessThanWellFounded
<1>2. PICK m \in S : \A j \in S : ~(<<j, m>> \in OpToRel(<, Nat))
  BY <1>1, WFMin
<1>3. ASSUME NEW j \in S
      PROVE  m <= j
  <2>1. <<j, m>> \notin {ss \in Nat \X Nat : ss[1] < ss[2]}
    BY <1>2 DEF OpToRel
  <2>2. QED
    BY <2>1
<1>4. QED
  BY <1>3

\* It is in the set.
LEMMA MinIsIn ==
    ASSUME NEW S, S \subseteq Nat, S # {}
    PROVE  Min(S) \in S
BY HasLowest DEF Min

\* The GDB that is talked to is one of those there are.
LEMMA TalkingIs ==
    ASSUME Gdbs, Descriptors, CanTalk
    PROVE  /\ Talking \in DOMAIN gdbs /\ Talking # 0
           /\ gdbSocket # 0 => Talking = gdbSocket
<1>1. CASE gdbSocket # 0
  BY <1>1 DEF Gdbs, AreGdbs, Descriptors, Talking
<1>2. CASE gdbSocket = 0
  <2>1. Queued \subseteq DOMAIN gdbs /\ Queued # {}
    BY <1>2 DEF CanTalk, Queued
  <2>2. Min(Queued) \in Queued
    <3> DEFINE Q == Queued
    <3>1. Q \subseteq Nat /\ Q # {}
      BY <2>1 DEF Gdbs, AreGdbs
    <3> HIDE DEF Q
    <3>2. Min(Q) \in Q
      BY <3>1, MinIsIn
    <3>3. QED
      BY <3>2 DEF Q
  <2>3. QED
    BY <1>2, <2>1, <2>2 DEF Gdbs, AreGdbs, Talking
<1>3. QED
  BY <1>1, <1>2

\* A field of a GDB changes.
SameGot(list, other) ==
    DOMAIN list = DOMAIN other /\ \A k \in DOMAIN other : list[k].got = other[k].got

\* How far it got.
LEMMA Changes_stage ==
    ASSUME NEW list, AreGdbs(list), NEW i \in DOMAIN list, NEW value,
           NEW new, new = [list EXCEPT ![i].stage = value]
    PROVE  AreGdbs(new) /\ SameGot(new, list)
<1>1. DOMAIN new = DOMAIN list /\ new = [k \in DOMAIN new |-> new[k]]
  OBVIOUS
<1>2. /\ new[i] = [list[i] EXCEPT !.stage = value]
      /\ \A k \in DOMAIN list : k # i => new[k] = list[k]
  OBVIOUS
<1>3. IsGdb(new[i]) /\ new[i].stage = value /\ new[i].got = list[i].got
  <2>1. IsGdb(list[i])
    BY DEF AreGdbs
  <2>2. QED
    BY <1>2, <2>1 DEF IsGdb
<1>4. QED
  BY <1>1, <1>2, <1>3 DEF AreGdbs, SameGot

\* What was read of it.
LEMMA Changes_read ==
    ASSUME NEW list, AreGdbs(list), NEW i \in DOMAIN list, NEW value,
           NEW new, new = [list EXCEPT ![i].read = value]
    PROVE  AreGdbs(new) /\ SameGot(new, list)
<1>1. DOMAIN new = DOMAIN list /\ new = [k \in DOMAIN new |-> new[k]]
  OBVIOUS
<1>2. /\ new[i] = [list[i] EXCEPT !.read = value]
      /\ \A k \in DOMAIN list : k # i => new[k] = list[k]
  OBVIOUS
<1>3. IsGdb(new[i]) /\ new[i].read = value /\ new[i].got = list[i].got
  <2>1. IsGdb(list[i])
    BY DEF AreGdbs
  <2>2. QED
    BY <1>2, <2>1 DEF IsGdb
<1>4. QED
  BY <1>1, <1>2, <1>3 DEF AreGdbs, SameGot

\* What it sent.
LEMMA Changes_sent ==
    ASSUME NEW list, AreGdbs(list), NEW i \in DOMAIN list, NEW value,
           NEW new, new = [list EXCEPT ![i].sent = value]
    PROVE  AreGdbs(new) /\ SameGot(new, list)
<1>1. DOMAIN new = DOMAIN list /\ new = [k \in DOMAIN new |-> new[k]]
  OBVIOUS
<1>2. /\ new[i] = [list[i] EXCEPT !.sent = value]
      /\ \A k \in DOMAIN list : k # i => new[k] = list[k]
  OBVIOUS
<1>3. IsGdb(new[i]) /\ new[i].sent = value /\ new[i].got = list[i].got
  <2>1. IsGdb(list[i])
    BY DEF AreGdbs
  <2>2. QED
    BY <1>2, <2>1 DEF IsGdb
<1>4. QED
  BY <1>1, <1>2, <1>3 DEF AreGdbs, SameGot

\* Whether it hung up.
LEMMA Changes_hungUp ==
    ASSUME NEW list, AreGdbs(list), NEW i \in DOMAIN list, NEW value,
           NEW new, new = [list EXCEPT ![i].hungUp = value]
    PROVE  AreGdbs(new) /\ SameGot(new, list)
<1>1. DOMAIN new = DOMAIN list /\ new = [k \in DOMAIN new |-> new[k]]
  OBVIOUS
<1>2. /\ new[i] = [list[i] EXCEPT !.hungUp = value]
      /\ \A k \in DOMAIN list : k # i => new[k] = list[k]
  OBVIOUS
<1>3. IsGdb(new[i]) /\ new[i].hungUp = value /\ new[i].got = list[i].got
  <2>1. IsGdb(list[i])
    BY DEF AreGdbs
  <2>2. QED
    BY <1>2, <2>1 DEF IsGdb
<1>4. QED
  BY <1>1, <1>2, <1>3 DEF AreGdbs, SameGot

\* What it got: the only one that matters to the packets.
LEMMA Changes_got ==
    ASSUME NEW list, AreGdbs(list), NEW i \in DOMAIN list, NEW value \in Seq(Nat),
           NEW new, new = [list EXCEPT ![i].got = value]
    PROVE  AreGdbs(new) /\ DOMAIN new = DOMAIN list /\ new[i].got = value
           /\ \A k \in DOMAIN list : k # i => new[k].got = list[k].got
<1>1. DOMAIN new = DOMAIN list /\ new = [k \in DOMAIN new |-> new[k]]
  OBVIOUS
<1>2. /\ new[i] = [list[i] EXCEPT !.got = value]
      /\ \A k \in DOMAIN list : k # i => new[k] = list[k]
  OBVIOUS
<1>3. IsGdb(new[i]) /\ new[i].got = value
  <2>1. IsGdb(list[i])
    BY DEF AreGdbs
  <2>2. QED
    BY <1>2, <2>1 DEF IsGdb
<1>4. QED
  BY <1>1, <1>2, <1>3 DEF AreGdbs, SameGot

\* A character is received, or that GDB has hung up.
LEMMA ReceiveKeeps ==
    ASSUME Gdbs, Descriptors, NEW char, ReceiveChar(char)
    PROVE  Gdbs' /\ Descriptors' /\ SameGot(gdbs', gdbs) /\ listenSocket' = listenSocket
<1> DEFINE i == Talking
<1>1. i \in DOMAIN gdbs /\ i # 0 /\ (gdbSocket # 0 => i = gdbSocket)
  BY TalkingIs DEF ReceiveChar
<1>2. CASE gdbs' = [Accepted(i) EXCEPT ![i].read = @ + 1] /\ WaitForGdbConnect
  <2> DEFINE accepted == Accepted(i)
  <2>1. AreGdbs(accepted) /\ SameGot(accepted, gdbs)
    BY <1>1, Changes_stage DEF Gdbs, Accepted
  <2>2. AreGdbs(gdbs') /\ SameGot(gdbs', accepted)
    <3>1. i \in DOMAIN accepted /\ gdbs' = [accepted EXCEPT ![i].read = accepted[i].read + 1]
      BY <1>1, <1>2, <2>1 DEF SameGot
    <3> HIDE DEF accepted, i
    <3>2. QED
      BY <2>1, <3>1, Changes_read
  <2> HIDE DEF accepted, i
  <2>3. SameGot(gdbs', gdbs)
    BY <2>1, <2>2 DEF SameGot
  <2>4. Descriptors' /\ listenSocket' = listenSocket
    BY <1>1, <1>2, <2>3 DEF Descriptors, KnownSockets, WaitForGdbConnect, SameGot, i
  <2>5. QED
    BY <2>2, <2>3, <2>4 DEF Gdbs
<1>3. CASE /\ gdbs' = [Accepted(i) EXCEPT ![i].stage = "closed"]
           /\ gdbSocket' = 0 /\ descriptors' = descriptors \ {i} /\ UNCHANGED listenSocket
  <2> DEFINE accepted == Accepted(i)
  <2>1. AreGdbs(accepted) /\ SameGot(accepted, gdbs)
    BY <1>1, Changes_stage DEF Gdbs, Accepted
  <2>2. AreGdbs(gdbs') /\ SameGot(gdbs', accepted)
    <3>1. i \in DOMAIN accepted /\ gdbs' = [accepted EXCEPT ![i].stage = "closed"]
      BY <1>1, <1>3, <2>1 DEF SameGot
    <3> HIDE DEF accepted, i
    <3>2. QED
      BY <2>1, <3>1, Changes_stage
  <2> HIDE DEF accepted, i
  <2>3. SameGot(gdbs', gdbs)
    BY <2>1, <2>2 DEF SameGot
  <2>4. Descriptors' /\ listenSocket' = listenSocket
    BY <1>1, <1>3, <2>3 DEF Descriptors, KnownSockets, SameGot
  <2>5. QED
    BY <2>2, <2>3, <2>4 DEF Gdbs
<1>4. QED
  BY <1>2, <1>3 DEF ReceiveChar

\* A connection is there or is accepted, and nothing else happens.
LEMMA AcceptKeeps ==
    ASSUME Gdbs, Descriptors, WaitForGdbConnect, gdbs' = Accepted(Talking)
    PROVE  Gdbs' /\ Descriptors' /\ SameGot(gdbs', gdbs) /\ listenSocket' = listenSocket
<1> DEFINE i == Talking
<1>1. i \in DOMAIN gdbs /\ i # 0 /\ (gdbSocket # 0 => i = gdbSocket)
  BY TalkingIs DEF WaitForGdbConnect
<1>2. AreGdbs(gdbs') /\ SameGot(gdbs', gdbs)
  BY <1>1, Changes_stage DEF Gdbs, Accepted
<1> HIDE DEF i
<1>3. Descriptors' /\ listenSocket' = listenSocket
  BY <1>1, <1>2 DEF Descriptors, KnownSockets, WaitForGdbConnect, SameGot, i
<1>4. QED
  BY <1>2, <1>3 DEF Gdbs

\* A character is sent to the GDB that is talked to, and to no other one.
LEMMA SendKeeps ==
    ASSUME Gdbs, Descriptors, NEW transmission \in Nat, SendChar(transmission)
    PROVE  /\ Gdbs' /\ Descriptors' /\ listenSocket' = listenSocket
           /\ gdbSocket' \in DOMAIN gdbs /\ (gdbSocket # 0 => gdbSocket' = gdbSocket)
           /\ DOMAIN gdbs' = DOMAIN gdbs
           /\ \A k \in DOMAIN gdbs : k # gdbSocket' => gdbs'[k].got = gdbs[k].got
           /\ \/ gdbs'[gdbSocket'].got = gdbs[gdbSocket'].got
              \/ gdbs'[gdbSocket'].got = Append(gdbs[gdbSocket'].got, transmission)
<1> DEFINE i == Talking
           accepted == Accepted(i)
           got == IF gdbs[i].hungUp THEN accepted[i].got ELSE Append(accepted[i].got, transmission)
<1>1. i \in DOMAIN gdbs /\ i # 0 /\ (gdbSocket # 0 => i = gdbSocket) /\ gdbSocket' = i
  BY TalkingIs DEF SendChar, WaitForGdbConnect
<1>2. AreGdbs(accepted) /\ SameGot(accepted, gdbs)
  BY <1>1, Changes_stage DEF Gdbs, Accepted
<1>3. i \in DOMAIN accepted /\ accepted[i].got = gdbs[i].got /\ accepted[i].got \in Seq(Nat)
  <2> HIDE DEF accepted, i
  <2>1. QED
    BY <1>1, <1>2 DEF SameGot, AreGdbs
<1>4. got = gdbs[i].got \/ got = Append(gdbs[i].got, transmission)
  <2> HIDE DEF accepted, i
  <2>1. CASE gdbs[i].hungUp
    BY <1>3, <2>1
  <2>2. CASE ~gdbs[i].hungUp
    BY <1>3, <2>2
  <2>3. QED
    BY <2>1, <2>2
<1>5. got \in Seq(Nat)
  <2> HIDE DEF accepted, i, got
  <2> DEFINE before == gdbs[i].got
  <2>1. before \in Seq(Nat) /\ (got = before \/ got = Append(before, transmission))
    BY <1>3, <1>4
  <2> HIDE DEF before
  <2>2. QED
    BY <2>1
<1>6. gdbs' = [accepted EXCEPT ![i].got = got]
  BY DEF SendChar
<1>7. /\ AreGdbs(gdbs') /\ DOMAIN gdbs' = DOMAIN accepted /\ gdbs'[i].got = got
      /\ \A k \in DOMAIN accepted : k # i => gdbs'[k].got = accepted[k].got
  <2> DEFINE new == gdbs'
  <2>1. i \in DOMAIN accepted /\ new = [accepted EXCEPT ![i].got = got]
    BY <1>3, <1>6
  <2> HIDE DEF accepted, i, got, new
  <2>2. /\ AreGdbs(new) /\ DOMAIN new = DOMAIN accepted /\ new[i].got = got
        /\ \A k \in DOMAIN accepted : k # i => new[k].got = accepted[k].got
    <3> DEFINE before == accepted
    <3>1. /\ AreGdbs(before) /\ i \in DOMAIN before /\ got \in Seq(Nat)
          /\ new = [before EXCEPT ![i].got = got]
      BY <1>2, <1>5, <2>1
    <3> HIDE DEF before
    <3>2. AreGdbs(new)
      BY <3>1, Changes_got
    <3>3. DOMAIN new = DOMAIN before /\ new[i].got = got
      BY <3>1, Changes_got
    <3>4. \A k \in DOMAIN before : k # i => new[k].got = before[k].got
      BY <3>1, Changes_got
    <3>5. QED
      BY <3>2, <3>3, <3>4 DEF before
  <2>3. QED
    BY <2>2 DEF new
<1>8. /\ DOMAIN gdbs' = DOMAIN gdbs
      /\ \A k \in DOMAIN gdbs : k # i => gdbs'[k].got = gdbs[k].got
  <2> HIDE DEF accepted, i, got
  <2>1. QED
    BY <1>2, <1>7 DEF SameGot
<1>9. Descriptors' /\ listenSocket' = listenSocket
  <2> HIDE DEF accepted, got
  <2>1. QED
    BY <1>1, <1>8 DEF Descriptors, KnownSockets, SendChar, WaitForGdbConnect
<1>10. QED
  <2> HIDE DEF accepted, i, got
  <2>1. QED
    BY <1>1, <1>4, <1>7, <1>8, <1>9 DEF Gdbs

\* The sockets are made and closed.
LEMMA CreateKeeps ==
    ASSUME Gdbs, Descriptors, CreateListenSocket
    PROVE  Gdbs' /\ Descriptors'
BY DEF Gdbs, AreGdbs, IsGdb, Descriptors, KnownSockets, CreateListenSocket

\* Closing them leaves none open.
LEMMA CloseKeeps ==
    ASSUME Gdbs, Descriptors, CloseSockets
    PROVE  Gdbs' /\ Descriptors' /\ ~listenSocket' /\ gdbSocket' = 0
<1>1. descriptors' = descriptors \ KnownSockets
  BY DEF CloseSockets, KnownSockets
<1>2. descriptors' = {}
  BY <1>1 DEF Descriptors
<1>3. gdbs' = gdbs /\ listenSocket' = FALSE /\ gdbSocket' = 0
  BY DEF CloseSockets
<1>4. QED
  BY <1>2, <1>3 DEF Gdbs, AreGdbs, IsGdb, Descriptors, KnownSockets

\* What the GDBs do.
LEMMA GdbActsKeeps ==
    ASSUME Gdbs, GdbActs
    PROVE  Gdbs' /\ SameGot(gdbs', gdbs)
<1>1. PICK i \in DOMAIN gdbs : Connect(i) \/ Send(i) \/ HangUp(i)
  BY DEF GdbActs
<1>2. CASE Connect(i)
  BY <1>2, Changes_stage DEF Connect, Gdbs
<1>3. CASE Send(i)
  BY <1>3, Changes_sent DEF Send, Gdbs
<1>4. CASE HangUp(i)
  BY <1>4, Changes_hungUp DEF HangUp, Gdbs
<1>5. QED
  BY <1>1, <1>2, <1>3, <1>4

-----------------------------------------------------------------------------
(* The steps, and the sockets.                                             *)

\* The other components do nothing while the sockets are set up.
LEMMA Elsewhere == CommandLineStep \/ CoverageStep \/ SemihostStep => at \notin InitPlaces
<1>1. CommandLineStep => at \notin InitPlaces
  BY DEF InitPlaces, CommandLineStep, BeginCommandLine, ParseFlashOption, ParseRamOption, ParseRegionOption,
         ParseBreakOnStartOption, ParseGdbPortOption, ParseCodeCovOption, ParseRestrictOption,
         RefuseArgument, ParseFilenameArgument, CheckRequiredArguments, Flag, OpenImage, SizeImage,
         AllocateImage, ReadImage, LoadFromFlashImage, CreateRegionsFromFlashImage, ReleaseImage,
         CatchLoadImage, EndCommandLine, CatchCommandLine
<1>2. CoverageStep => at \notin InitPlaces
  BY DEF InitPlaces, CoverageStep, Covers, RunCodeCoverageIfRequested, CodeCoverageRun,
         InitPrivateData, ParseElf, ElfLinesParse, OpenPipe, AllocateElfLines, ParseElfLine,
         SortElfLines, CatchElfLines, EndParseElf, CatchParse, OpenSummary, WalkEnds, WalkSourceFile,
         OpenSource, ReadSource, OpenDest, WriteLine, EndOfSource, UninitAfterWalk, EndRun, CatchRun,
         RethrowRun, EndCoverage, CatchCoverage
<1>3. SemihostStep => at \notin InitPlaces
  BY DEF InitPlaces, SemihostStep, Serves, HandleWriteRequest, WriteToConsole, HandleReadRequest,
         ReadFromFile, HandleOpenRequest, HandleUnlinkRequest, HandleRenameRequest,
         HandleFStatRequest, HandleStatRequest, HandleLSeekRequest, HandleCloseRequest
<1>4. QED
  BY <1>1, <1>2, <1>3

\* A call of the host that the program makes uses no socket.
LEMMA SemihostKeepsSocket == SemihostStep => UNCHANGED socket
BY DEF SemihostStep, HostAnswers, HostAnswersAtOnce, AsksGdb, HandleWriteRequest, WriteToConsole,
       HandleReadRequest, ReadFromFile, HandleOpenRequest, HandleUnlinkRequest, HandleRenameRequest,
       HandleFStatRequest, HandleStatRequest, HandleLSeekRequest, HandleCloseRequest

\* Steps that leave the sockets alone.
LEMMA SocketsStay ==
    ASSUME SocketsInv, UNCHANGED socket, pComm' = pComm, at \notin InitPlaces
    PROVE  SocketsInv' /\ SameGot(gdbs', gdbs)
<1>1. gdbs' = gdbs /\ listenSocket' = listenSocket /\ gdbSocket' = gdbSocket /\ descriptors' = descriptors
  BY DEF socket, comm
<1>2. SameGot(gdbs', gdbs)
  BY <1>1 DEF SameGot
<1>3. Gdbs' /\ Descriptors'
  BY <1>1 DEF SocketsInv, Gdbs, AreGdbs, IsGdb, Descriptors, KnownSockets
<1>4. QED
  BY <1>1, <1>2, <1>3 DEF SocketsInv

\* Steps that use the sockets while main has a pointer to them.
LEMMA SocketsMove ==
    ASSUME SocketsInv, Gdbs', Descriptors', pComm = "g_comm", pComm' = pComm
    PROVE  SocketsInv'
BY DEF SocketsInv

\* A GDB has no character of a packet that comes later, and what is sent of the
\* present one went to the GDB that is connected.
PacketsInv ==
    /\ packet = [number |-> packet.number, sent |-> packet.sent] /\ packet.number \in Nat
    /\ \A i \in DOMAIN gdbs : \A n \in Range(gdbs[i].got) : n <= packet.number
    /\ at = "send" => \A i \in DOMAIN gdbs : packet.number \in Range(gdbs[i].got) => gdbSocket = i
    /\ NoPacketIsSplit

\* main and the run loop keep the sockets known.
LEMMA MainSockets ==
    ASSUME ProcessInv, SocketsInv, PacketsInv, MainStep
    PROVE  /\ SocketsInv'
           /\ \/ packet' = packet /\ SameGot(gdbs', gdbs)
              \/ BeginPacket \/ SendPacketChar
<1>1. CASE BeginMain
  BY <1>1, SocketsStay DEF BeginMain, InitPlaces, thread
<1>2. CASE SocketCommInit
  BY <1>2, SocketsStay DEF SocketCommInit, InitPlaces, thread
<1>3. CASE Mri4SimInit
  BY <1>3, SocketsStay DEF Mri4SimInit, InitPlaces, thread
<1>4. CASE CopyCommandLineArgumentsToStack
  BY <1>4, SocketsStay DEF CopyCommandLineArgumentsToStack, InitPlaces, thread
<1>5. CASE EndCopy
  BY <1>5, SocketsStay DEF EndCopy, InitPlaces, thread
<1>6. CASE CatchArguments
  BY <1>6, SocketsStay DEF CatchArguments, InitPlaces, thread
<1>7. CASE BreakOnStart
  BY <1>7, SocketsStay DEF BreakOnStart, InitPlaces, thread
<1>8. CASE PinkySimStep
  BY <1>8, SocketsStay DEF PinkySimStep, InitPlaces, thread, KeepsFiles
<1>9. CASE IsExitSemihost
  BY <1>9, SocketsStay DEF IsExitSemihost, InitPlaces, thread
<1>10. CASE EnteringDebugger
  BY <1>10, SocketsStay DEF EnteringDebugger, InitPlaces, thread, Stopped
<1>11. CASE SkipHardcodedBreakpoint
  BY <1>11, SocketsStay DEF SkipHardcodedBreakpoint, InitPlaces, thread, Stopped
<1>12. CASE AdvanceProgramCounter
  BY <1>12, SocketsStay DEF AdvanceProgramCounter, InitPlaces, thread
<1>13. CASE EndMain
  BY <1>13, SocketsStay DEF EndMain, InitPlaces, thread
<1>14. CASE BeginPacket
  BY <1>14, SocketsStay DEF BeginPacket, InitPlaces, Stopped
<1>15. CASE CreateSocket
  <2>1. packet' = packet /\ pComm' = pComm
    BY <1>15 DEF CreateSocket, thread
  <2>2. CASE UNCHANGED socket
    BY <1>15, <2>1, <2>2, SocketsStay DEF CreateSocket, InitPlaces
  <2>3. CASE CreateListenSocket /\ at' = "bind"
    <3>1. Gdbs' /\ Descriptors'
      BY <2>3, CreateKeeps DEF SocketsInv
    <3>2. gdbSocket' = gdbSocket /\ SameGot(gdbs', gdbs)
      BY <2>3 DEF CreateListenSocket, SameGot
    <3>3. QED
      BY <2>1, <2>3, <3>1, <3>2 DEF SocketsInv, InitPlaces
  <2>4. QED
    BY <1>15, <2>2, <2>3 DEF CreateSocket
<1>16. CASE BindAndListen
  <2>1. at = "bind" /\ at' \in InitPlaces
    BY <1>16, Leaves, Unwinding DEF BindAndListen, SocketPlaces, Unwinds, InitPlaces
  <2>2. gdbs' = gdbs /\ listenSocket' = listenSocket /\ gdbSocket' = gdbSocket /\ descriptors' = descriptors
    BY <1>16 DEF BindAndListen, socket, comm
  <2>3. packet' = packet /\ pComm' = pComm
    BY <1>16 DEF BindAndListen, thread
  <2>4. Gdbs' /\ Descriptors' /\ SameGot(gdbs', gdbs)
    BY <2>2 DEF SocketsInv, Gdbs, AreGdbs, IsGdb, Descriptors, KnownSockets, SameGot
  <2>5. QED
    BY <2>1, <2>2, <2>3, <2>4 DEF SocketsInv
<1>17. CASE EndSocketInit
  <2>1. gdbs' = gdbs /\ listenSocket' = listenSocket /\ gdbSocket' = gdbSocket /\ descriptors' = descriptors
    BY <1>17 DEF EndSocketInit, socket, comm
  <2>2. packet' = packet /\ pComm' = "g_comm"
    BY <1>17 DEF EndSocketInit
  <2>3. Gdbs' /\ Descriptors' /\ SameGot(gdbs', gdbs)
    BY <2>1 DEF SocketsInv, Gdbs, AreGdbs, IsGdb, Descriptors, KnownSockets, SameGot
  <2>4. QED
    BY <2>2, <2>3 DEF SocketsInv
<1>18. CASE CatchSocket
  <2>1. Gdbs' /\ Descriptors' /\ ~listenSocket' /\ gdbSocket' = 0
    BY <1>18, CloseKeeps DEF CatchSocket, SocketsInv
  <2>2. packet' = packet /\ pComm' = pComm /\ SameGot(gdbs', gdbs)
    BY <1>18 DEF CatchSocket, CloseSockets, SameGot, thread
  <2>3. QED
    BY <2>1, <2>2 DEF SocketsInv
<1>19. CASE ShouldInterruptRun
  <2>1. pComm = "g_comm" /\ at \notin InitPlaces
    BY <1>19, Leaves DEF ShouldInterruptRun, RunPlaces, InitPlaces
  <2>2. packet' = packet /\ pComm' = pComm
    BY <1>19 DEF ShouldInterruptRun
  <2>3. CASE UNCHANGED socket
    BY <2>1, <2>2, <2>3, SocketsStay
  <2>4. CASE Polls
    BY <2>1, <2>2, <2>4, AcceptKeeps, SocketsMove DEF Polls, SocketsInv
  <2>5. QED
    BY <1>19, <2>3, <2>4 DEF ShouldInterruptRun
<1>20. CASE SendPacketChar
  <2>1. pComm = "g_comm" /\ at \notin InitPlaces
    BY <1>20, Leaves DEF SendPacketChar, RunPlaces, InitPlaces
  <2>2. pComm' = pComm
    BY <1>20 DEF SendPacketChar, Stopped
  <2>3. CASE SendChar(packet.number)
    BY <1>20, <2>1, <2>2, <2>3, SendKeeps, SocketsMove DEF SocketsInv, PacketsInv
  <2>4. CASE UNCHANGED socket
    BY <1>20, <2>1, <2>2, <2>4, SocketsStay
  <2>5. CASE TalkFails
    BY <1>20, <2>1, <2>2, <2>5, AcceptKeeps, SocketsMove DEF TalkFails, SocketsInv
  <2>6. QED
    BY <1>20, <2>3, <2>4, <2>5 DEF SendPacketChar, BrokenPipe
<1>21. CASE ReceiveFails
  <2>1. pComm = "g_comm" /\ at \notin InitPlaces
    BY <1>21, Leaves DEF ReceiveFails, RunPlaces, InitPlaces
  <2>2. packet' = packet /\ pComm' = pComm
    BY <1>21 DEF ReceiveFails, Stopped
  <2>3. CASE UNCHANGED socket
    BY <2>1, <2>2, <2>3, SocketsStay
  <2>4. CASE TalkFails
    BY <2>1, <2>2, <2>4, AcceptKeeps, SocketsMove DEF TalkFails, SocketsInv
  <2>5. QED
    BY <1>21, <2>3, <2>4 DEF ReceiveFails
<1>22. CASE ReceiveAcknowledge
  <2>1. pComm = "g_comm"
    BY <1>22, Leaves DEF ReceiveAcknowledge, RunPlaces
  <2>2. packet' = packet /\ pComm' = pComm
    BY <1>22 DEF ReceiveAcknowledge, Stopped
  <2>3. PICK char : ReceiveChar(char)
    BY <1>22 DEF ReceiveAcknowledge
  <2>4. QED
    BY <2>1, <2>2, <2>3, ReceiveKeeps, SocketsMove DEF SocketsInv
<1>23. CASE ReceiveCommand
  <2>1. pComm = "g_comm"
    BY <1>23, Leaves DEF ReceiveCommand, RunPlaces
  <2>2. packet' = packet /\ pComm' = pComm
    BY <1>23 DEF ReceiveCommand, Stopped
  <2>3. PICK char : ReceiveChar(char)
    BY <1>23 DEF ReceiveCommand
  <2>4. QED
    BY <2>1, <2>2, <2>3, ReceiveKeeps, SocketsMove DEF SocketsInv
<1>24. CASE CatchMain
  <2>1. gdbs' = gdbs /\ listenSocket' = listenSocket /\ gdbSocket' = gdbSocket /\ descriptors' = descriptors
    BY <1>24 DEF CatchMain, socket, comm
  <2>2. packet' = packet /\ pComm' \in {"g_comm", "lost", pComm} /\ (pComm' = "null" => pComm = "null")
    BY <1>24 DEF CatchMain
  <2>3. Gdbs' /\ Descriptors' /\ SameGot(gdbs', gdbs)
    BY <2>1 DEF SocketsInv, Gdbs, AreGdbs, IsGdb, Descriptors, KnownSockets, SameGot
  <2>4. QED
    BY <1>24, <2>1, <2>2, <2>3 DEF SocketsInv, CatchMain, InitPlaces
<1>25. CASE UninitMain
  <2>1. at \notin InitPlaces /\ packet' = packet /\ pComm' = pComm
    BY <1>25 DEF UninitMain, InitPlaces, thread
  <2>2. CASE UNCHANGED socket
    BY <2>1, <2>2, SocketsStay
  <2>3. CASE CloseSockets
    <3>1. Gdbs' /\ Descriptors' /\ ~listenSocket' /\ gdbSocket' = 0
      BY <2>3, CloseKeeps DEF SocketsInv
    <3>2. SameGot(gdbs', gdbs)
      BY <2>3 DEF CloseSockets, SameGot
    <3>3. QED
      BY <2>1, <3>1, <3>2 DEF SocketsInv
  <2>4. QED
    BY <1>25, <2>2, <2>3 DEF UninitMain
<1>26. QED
  BY <1>1, <1>2, <1>3, <1>4, <1>5, <1>6, <1>7, <1>8, <1>9, <1>10, <1>11, <1>12, <1>13, <1>14,
     <1>15, <1>16, <1>17, <1>18, <1>19, <1>20, <1>21, <1>22, <1>23, <1>24, <1>25 DEF MainStep

-----------------------------------------------------------------------------
(* The steps, and the packets.                                             *)

\* Steps that send nothing.
LEMMA PacketsStay ==
    ASSUME PacketsInv, SameGot(gdbs', gdbs), packet' = packet,
           at' = "send" => at = "send" /\ gdbSocket' = gdbSocket
    PROVE  PacketsInv'
<1>1. /\ DOMAIN gdbs' = DOMAIN gdbs
      /\ \A k \in DOMAIN gdbs : Range(gdbs'[k].got) = Range(gdbs[k].got)
  BY DEF SameGot
<1>2. NoPacketIsSplit'
  BY <1>1 DEF PacketsInv, NoPacketIsSplit
<1>3. \A i \in DOMAIN gdbs' : \A n \in Range(gdbs'[i].got) : n <= packet'.number
  BY <1>1 DEF PacketsInv
<1>4. at' = "send" => \A i \in DOMAIN gdbs' : packet'.number \in Range(gdbs'[i].got) => gdbSocket' = i
  BY <1>1 DEF PacketsInv
<1>5. QED
  BY <1>2, <1>3, <1>4 DEF PacketsInv

\* A new packet has a number that no GDB has got.
LEMMA BeginPacketKeeps ==
    ASSUME PacketsInv, Gdbs, BeginPacket
    PROVE  PacketsInv'
<1>1. gdbs' = gdbs /\ packet' = [number |-> packet.number + 1, sent |-> 0]
  BY DEF BeginPacket, NextPacket, socket
<1>2. packet'.number = packet.number + 1 /\ packet.number \in Nat
  BY <1>1 DEF PacketsInv
<1>3. \A i \in DOMAIN gdbs : \A n \in Range(gdbs[i].got) : n \in Nat
  BY DEF Gdbs, AreGdbs, Range
<1>4. \A i \in DOMAIN gdbs : \A n \in Range(gdbs[i].got) : n <= packet.number
  BY DEF PacketsInv
<1>5. \A i \in DOMAIN gdbs : \A n \in Range(gdbs[i].got) : n <= packet'.number /\ n # packet'.number
  BY <1>2, <1>3, <1>4
<1>6. NoPacketIsSplit'
  BY <1>1 DEF PacketsInv, NoPacketIsSplit
<1>7. packet' = [number |-> packet'.number, sent |-> packet'.sent] /\ packet'.number \in Nat
  BY <1>1, <1>2
<1>8. /\ \A i \in DOMAIN gdbs' : \A n \in Range(gdbs'[i].got) : n <= packet'.number
      /\ \A i \in DOMAIN gdbs' : packet'.number \notin Range(gdbs'[i].got)
  BY <1>1, <1>5
<1>9. QED
  BY <1>6, <1>7, <1>8 DEF PacketsInv

\* The characters of a sequence, with one more behind them.
LEMMA RangeOfAppend ==
    ASSUME NEW list \in Seq(Nat), NEW n \in Nat
    PROVE  Range(Append(list, n)) = Range(list) \cup {n}
<1> DEFINE longer == Append(list, n)
<1>1. /\ DOMAIN longer = 1 .. Len(list) + 1 /\ longer[Len(list) + 1] = n
      /\ \A k \in 1 .. Len(list) : longer[k] = list[k]
  OBVIOUS
<1>2. DOMAIN list = 1 .. Len(list) /\ Len(list) \in Nat
  OBVIOUS
<1> HIDE DEF longer
<1>3. ASSUME NEW x \in Range(longer)
      PROVE  x \in Range(list) \cup {n}
  <2>1. PICK k \in 1 .. Len(list) + 1 : x = longer[k]
    BY <1>1 DEF Range
  <2>2. CASE k = Len(list) + 1
    BY <1>1, <2>1, <2>2
  <2>3. CASE k # Len(list) + 1
    <3>1. k \in DOMAIN list /\ longer[k] = list[k]
      BY <1>1, <1>2, <2>3
    <3>2. QED
      BY <2>1, <3>1 DEF Range
  <2>4. QED
    BY <2>2, <2>3
<1>4. Range(list) \subseteq Range(longer)
  BY <1>1, <1>2 DEF Range
<1>5. n \in Range(longer)
  BY <1>1, <1>2 DEF Range
<1>6. Range(longer) = Range(list) \cup {n}
  BY <1>3, <1>4, <1>5
<1>7. QED
  BY <1>6 DEF longer

\* What is sent of the packet goes to the GDB that got the beginning of it.
LEMMA SendPacketKeeps ==
    ASSUME ProcessInv, SocketsInv, PacketsInv, SendPacketChar
    PROVE  PacketsInv'
<1>1. at = "send"
  BY DEF SendPacketChar
<1>2. CASE SendChar(packet.number) /\ packet' = [packet EXCEPT !.sent = @ + 1]
  <2> DEFINE to == gdbSocket'
             p  == packet.number
             has(k) == Range(gdbs[k].got)
             gets(k) == Range(gdbs'[k].got)
  <2>1. packet'.number = p /\ packet' = [number |-> packet'.number, sent |-> packet'.sent] /\ p \in Nat
    BY <1>2 DEF PacketsInv
  <2>2. /\ to \in DOMAIN gdbs /\ (gdbSocket # 0 => to = gdbSocket)
        /\ DOMAIN gdbs' = DOMAIN gdbs
        /\ \A k \in DOMAIN gdbs : k # to => gdbs'[k].got = gdbs[k].got
        /\ \/ gdbs'[to].got = gdbs[to].got
           \/ gdbs'[to].got = Append(gdbs[to].got, p)
    BY <1>2, <2>1, SendKeeps DEF SocketsInv
  <2>3. \A k \in DOMAIN gdbs : k # to => gets(k) = has(k)
    BY <2>2
  <2>4. gets(to) \subseteq has(to) \cup {p}
    <3>1. gdbs[to].got \in Seq(Nat)
      BY <2>2 DEF SocketsInv, Gdbs, AreGdbs
    <3>2. Range(Append(gdbs[to].got, p)) = has(to) \cup {p}
      BY <2>1, <3>1, RangeOfAppend
    <3>3. QED
      BY <2>2, <3>2
  <2>5. \A k \in DOMAIN gdbs : p \in has(k) => k = to
    <3>1. \A k \in DOMAIN gdbs : p \in has(k) => gdbSocket = k
      BY <1>1 DEF PacketsInv
    <3>2. \A k \in DOMAIN gdbs : k # 0
      BY DEF SocketsInv, Gdbs, AreGdbs
    <3>3. QED
      BY <2>2, <3>1, <3>2
  <2>6. \A i, k \in DOMAIN gdbs : i # k => has(i) \cap has(k) = {}
    BY DEF PacketsInv, NoPacketIsSplit
  <2>7. \A k \in DOMAIN gdbs : \A n \in has(k) : n <= p
    BY DEF PacketsInv
  <2>8. to = gdbSocket' /\ DOMAIN gdbs' = DOMAIN gdbs /\ packet'.number = p /\ p <= p
    BY <2>1, <2>2
  <2> HIDE DEF to, p
  <2>9. \A k \in DOMAIN gdbs : p \in gets(k) => k = to
    <3> HIDE DEF has, gets
    <3>1. QED
      BY <2>3, <2>5
  <2>10. \A k \in DOMAIN gdbs : \A n \in gets(k) : n <= p
    <3> HIDE DEF has, gets
    <3>1. QED
      BY <2>3, <2>4, <2>7, <2>8
  <2>11. \A i, k \in DOMAIN gdbs : i # k => gets(i) \cap gets(k) = {}
    <3> HIDE DEF has, gets
    <3>1. QED
      BY <2>3, <2>4, <2>5, <2>6
  <2>12. NoPacketIsSplit'
    BY <2>8, <2>11 DEF NoPacketIsSplit
  <2>13. QED
    BY <2>1, <2>8, <2>9, <2>10, <2>12 DEF PacketsInv, p
<1>3. CASE packet' = packet /\ (UNCHANGED socket \/ TalkFails) /\ at' # "send"
  <2>1. SameGot(gdbs', gdbs)
    <3>1. CASE UNCHANGED socket
      BY <3>1 DEF socket, SameGot
    <3>2. CASE TalkFails
      BY <3>2, AcceptKeeps DEF TalkFails, SocketsInv
    <3>3. QED
      BY <1>3, <3>1, <3>2
  <2>2. QED
    BY <1>3, <2>1, PacketsStay
<1>4. \A e : Throw(e) => at' # "send"
  BY <1>1, Leaves, Unwinding DEF RunPlaces, Unwinds
<1>5. QED
  BY <1>2, <1>3, <1>4 DEF SendPacketChar, BrokenPipe

-----------------------------------------------------------------------------
(* The theorems.                                                           *)

Inv == ProcessInv /\ SocketsInv /\ PacketsInv

\* The process starts tracked.
LEMMA InvInit == Init => Inv
<1> SUFFICES ASSUME Init
             PROVE  Inv
  OBVIOUS
<1>1. PICK s \in Sessions : gdbs = [i \in DOMAIN s.scripts |-> Gdb(s.scripts[i])]
  BY DEF Init
<1>2. at = "main" /\ exceptions = NoExceptions /\ held = {} /\ pComm = "null"
      /\ packet = [number |-> 0, sent |-> 0]
      /\ listenSocket = FALSE /\ gdbSocket = 0 /\ descriptors = {}
  BY DEF Init, SocketInit
<1>3. DOMAIN gdbs \subseteq Nat \ {0}
  <2>1. s.scripts \in Seq(Seq(GdbChars))
    BY SessionsAssumption
  <2>2. DOMAIN s.scripts = 1 .. Len(s.scripts) /\ Len(s.scripts) \in Nat
    BY <2>1
  <2>3. DOMAIN gdbs = DOMAIN s.scripts
    BY <1>1
  <2>4. QED
    BY <2>2, <2>3
<1>4. gdbs = [i \in DOMAIN gdbs |-> gdbs[i]] /\ \A i \in DOMAIN gdbs : IsGdb(gdbs[i]) /\ gdbs[i].got = << >>
  BY <1>1 DEF Gdb, IsGdb
<1>5. Gdbs
  <2>1. << >> \in Seq(Nat)
    OBVIOUS
  <2>2. QED
    BY <1>3, <1>4, <2>1 DEF Gdbs, AreGdbs
<1>6. ProcessInv
  BY <1>2 DEF ProcessInv, HasShape, Track, OutsidePlaces, NoExceptions, NoTry
<1>7. SocketsInv
  BY <1>2, <1>5 DEF SocketsInv, Descriptors, KnownSockets
<1>8. PacketsInv
  <2>1. \A i \in DOMAIN gdbs : Range(gdbs[i].got) = {}
    BY <1>4 DEF Range
  <2>2. QED
    BY <1>2, <2>1 DEF PacketsInv, NoPacketIsSplit
<1>9. QED
  BY <1>6, <1>7, <1>8 DEF Inv

\* Every step keeps it so.
LEMMA InvNext == Inv /\ [Next]_vars => Inv'
<1> SUFFICES ASSUME Inv, [Next]_vars
             PROVE  Inv'
  OBVIOUS
<1> USE DEF Inv
<1>1. CASE MainStep
  <2>1. ProcessInv' /\ (at' = "send" => BeginPacket \/ SendPacketChar)
    BY <1>1, MainTracks
  <2>2. /\ SocketsInv'
        /\ (packet' = packet /\ SameGot(gdbs', gdbs)) \/ BeginPacket \/ SendPacketChar
    BY <1>1, MainSockets
  <2>3. PacketsInv'
    <3>1. CASE BeginPacket
      BY <3>1, BeginPacketKeeps DEF SocketsInv
    <3>2. CASE SendPacketChar
      BY <3>2, SendPacketKeeps
    <3>3. CASE packet' = packet /\ SameGot(gdbs', gdbs) /\ ~BeginPacket /\ ~SendPacketChar
      BY <2>1, <3>3, PacketsStay
    <3>4. QED
      BY <2>2, <3>1, <3>2, <3>3
  <2>4. QED
    BY <2>1, <2>2, <2>3
<1>2. CASE CommandLineStep /\ UNCHANGED <<socket, semihost, inputs, coverage, thread>>
  BY <1>2, CommandLineTracks, Elsewhere, SocketsStay, PacketsStay DEF thread
<1>3. CASE SemihostStep /\ UNCHANGED <<dump, sources, coverage, thread>>
  BY <1>3, SemihostTracks, SemihostKeepsSocket, Elsewhere, SocketsStay, PacketsStay DEF thread
<1>4. CASE CoverageStep /\ UNCHANGED <<socket, semihost, thread>>
  BY <1>4, CoverageTracks, Elsewhere, SocketsStay, PacketsStay DEF thread
<1>5. CASE GdbSide
  <2>1. /\ at' = at /\ exceptions' = exceptions /\ held' = held /\ regions' = regions
        /\ pComm' = pComm /\ packet' = packet
        /\ listenSocket' = listenSocket /\ gdbSocket' = gdbSocket /\ descriptors' = descriptors
    BY <1>5 DEF GdbSide, options, memory, thread
  <2>2. Gdbs' /\ SameGot(gdbs', gdbs)
    BY <1>5, GdbActsKeeps DEF GdbSide, SocketsInv
  <2>3. ProcessInv'
    BY <2>1 DEF ProcessInv, HasShape, Track, IsClosed
  <2>4. Descriptors'
    BY <2>1, <2>2 DEF SocketsInv, Descriptors, KnownSockets, SameGot
  <2>5. SocketsInv'
    BY <2>1, <2>2, <2>4 DEF SocketsInv
  <2>6. QED
    BY <2>1, <2>2, <2>3, <2>5, PacketsStay
<1>6. CASE UNCHANGED vars
  <2>1. /\ at' = at /\ exceptions' = exceptions /\ held' = held /\ regions' = regions
        /\ pComm' = pComm /\ packet' = packet /\ gdbs' = gdbs
        /\ listenSocket' = listenSocket /\ gdbSocket' = gdbSocket /\ descriptors' = descriptors
    BY <1>6 DEF vars, options, memory, thread, socket, comm
  <2>2. ProcessInv'
    BY <2>1 DEF ProcessInv, HasShape, Track, IsClosed
  <2>3. SocketsInv' /\ SameGot(gdbs', gdbs)
    BY <2>1 DEF SocketsInv, Gdbs, AreGdbs, IsGdb, Descriptors, KnownSockets, SameGot
  <2>4. QED
    BY <2>1, <2>2, <2>3, PacketsStay
<1>7. QED
  BY <1>1, <1>2, <1>3, <1>4, <1>5, <1>6 DEF Next, Process

\* At every place, the handlers are those of the tries around it and what is
\* held is what its catch blocks release; the sockets are known, and a packet
\* that is being sent went to the GDB that is connected.
THEOREM ProcessIsTracked == Spec => []Inv
<1>1. Init => Inv
  BY InvInit
<1>2. Inv /\ [Next]_vars => Inv'
  BY InvNext
<1>3. QED
  BY <1>1, <1>2, PTL DEF Spec

\* Nothing is thrown that no handler catches.
THEOREM NothingIsUncaught == Spec => [](at # "killed")
<1>1. Inv => at # "killed"
  BY DEF Inv, ProcessInv, Track, OutsidePlaces, BeforePlaces, ParsePlaces, ImagePlaces, LoadPlaces,
         SocketPlaces, RunPlaces, CopyPlaces, RanPlaces, CoverPlaces, CatchPlaces, WalkPlaces,
         WalkedPlaces, ParseElfPlaces, CatchElfPlaces, ElfPlaces, EndPlaces
<1>2. QED
  BY <1>1, ProcessIsTracked, PTL

\* The characters of a packet all go to one GDB, however many come and go.
THEOREM PacketsAreWhole == Spec => []NoPacketIsSplit
<1>1. Inv => NoPacketIsSplit
  BY DEF Inv, PacketsInv
<1>2. QED
  BY <1>1, ProcessIsTracked, PTL

-----------------------------------------------------------------------------
(* Sequences put behind each other.                                        *)

\* FlattenSeq's recursive function on the first n of the sequences.
Joined(joined, seqs, n) ==
    /\ joined = [i \in 1 .. n |-> joined[i]]
    /\ \A i \in 1 .. n : joined[i] = IF i = 1 THEN seqs[i] ELSE joined[i - 1] \o seqs[i]

\* There is such a function: it is extended one sequence at a time.
LEMMA JoinedExists ==
    ASSUME NEW seqs, NEW n \in Nat
    PROVE  \E joined : Joined(joined, seqs, n)
<1> DEFINE bad == {k \in Nat : ~ \E joined : Joined(joined, seqs, k)}
<1>1. SUFFICES ASSUME bad # {}
               PROVE  FALSE
  OBVIOUS
<1>2. PICK m \in bad : \A j \in bad : m <= j
  <2>1. bad \subseteq Nat
    OBVIOUS
  <2> HIDE DEF bad
  <2>2. QED
    BY <1>1, <2>1, HasLowest
<1>3. m \in Nat /\ ~ \E joined : Joined(joined, seqs, m)
  OBVIOUS
<1>4. m # 0
  <2>1. Joined([i \in 1 .. 0 |-> 0], seqs, 0)
    BY DEF Joined
  <2>2. QED
    BY <1>3, <2>1
<1>5. m - 1 \in Nat /\ m - 1 \notin bad
  <2> HIDE DEF bad
  <2>1. QED
    BY <1>2, <1>3, <1>4
<1>6. PICK before : Joined(before, seqs, m - 1)
  BY <1>5
<1> DEFINE joined == [i \in 1 .. m |-> IF i < m THEN before[i]
                                       ELSE IF i = 1 THEN seqs[i] ELSE before[i - 1] \o seqs[i]]
<1>7. joined = [i \in 1 .. m |-> joined[i]]
  OBVIOUS
<1>8. ASSUME NEW i \in 1 .. m
      PROVE  joined[i] = IF i = 1 THEN seqs[i] ELSE joined[i - 1] \o seqs[i]
  <2>1. CASE i < m
    <3>1. i \in 1 .. m - 1 /\ joined[i] = before[i]
      BY <1>3, <2>1
    <3>2. i # 1 => i - 1 \in 1 .. m /\ i - 1 < m
      BY <1>3, <2>1
    <3>3. i # 1 => joined[i - 1] = before[i - 1]
      BY <3>2
    <3>4. before[i] = IF i = 1 THEN seqs[i] ELSE before[i - 1] \o seqs[i]
      BY <1>6, <3>1 DEF Joined
    <3> HIDE DEF joined
    <3>5. QED
      BY <3>1, <3>3, <3>4
  <2>2. CASE i = m
    <3>1. joined[i] = IF i = 1 THEN seqs[i] ELSE before[i - 1] \o seqs[i]
      BY <1>3, <2>2
    <3>2. i # 1 => i - 1 \in 1 .. m /\ i - 1 < m
      BY <1>3, <2>2
    <3>3. i # 1 => joined[i - 1] = before[i - 1]
      BY <3>2
    <3> HIDE DEF joined
    <3>4. QED
      BY <3>1, <3>3
  <2>3. QED
    BY <1>3, <2>1, <2>2
<1>9. Joined(joined, seqs, m)
  <2> HIDE DEF joined
  <2>1. QED
    BY <1>7, <1>8 DEF Joined
<1>10. QED
  BY <1>3, <1>9

\* What FlattenSeq is of sequences that there are some of.
LEMMA FlattenIs ==
    ASSUME NEW seqs, Len(seqs) \in Nat, Len(seqs) # 0
    PROVE  \E joined : Joined(joined, seqs, Len(seqs)) /\ FlattenSeq(seqs) = joined[Len(seqs)]
<1> DEFINE n == Len(seqs)
           joined == CHOOSE f : f = [i \in 1 .. n |-> IF i = 1 THEN seqs[i] ELSE f[i - 1] \o seqs[i]]
<1>1. FlattenSeq(seqs) = joined[n]
  BY DEF FlattenSeq
<1>2. \E f : f = [i \in 1 .. n |-> IF i = 1 THEN seqs[i] ELSE f[i - 1] \o seqs[i]]
  <2>1. PICK f : Joined(f, seqs, n)
    BY JoinedExists
  <2>2. f = [i \in 1 .. n |-> IF i = 1 THEN seqs[i] ELSE f[i - 1] \o seqs[i]]
    BY <2>1 DEF Joined
  <2>3. QED
    BY <2>2
<1>3. joined = [i \in 1 .. n |-> IF i = 1 THEN seqs[i] ELSE joined[i - 1] \o seqs[i]]
  BY <1>2
<1> HIDE DEF joined
<1>4. Joined(joined, seqs, n)
  BY <1>3 DEF Joined
<1>5. QED
  BY <1>1, <1>4

\* The sequences put behind each other are a sequence of the same things.
LEMMA JoinedIsSeq ==
    ASSUME NEW S, NEW n \in Nat, NEW seqs, \A i \in 1 .. n : seqs[i] \in Seq(S),
           NEW joined, Joined(joined, seqs, n)
    PROVE  \A i \in 1 .. n : joined[i] \in Seq(S)
<1> DEFINE bad == {k \in 1 .. n : joined[k] \notin Seq(S)}
<1>1. SUFFICES ASSUME bad # {}
               PROVE  FALSE
  OBVIOUS
<1>2. PICK m \in bad : \A j \in bad : m <= j
  <2>1. bad \subseteq Nat
    OBVIOUS
  <2> HIDE DEF bad
  <2>2. QED
    BY <1>1, <2>1, HasLowest
<1>3. m \in 1 .. n /\ joined[m] \notin Seq(S)
  OBVIOUS
<1>4. joined[m] = IF m = 1 THEN seqs[m] ELSE joined[m - 1] \o seqs[m]
  BY <1>3 DEF Joined
<1>5. CASE m = 1
  BY <1>3, <1>4, <1>5
<1>6. CASE m # 1
  <2>1. m - 1 \in 1 .. n /\ ~(m <= m - 1)
    BY <1>3, <1>6
  <2>2. joined[m - 1] \in Seq(S)
    BY <1>2, <2>1
  <2> DEFINE front == joined[m - 1]
             behind == seqs[m]
  <2>3. front \in Seq(S) /\ behind \in Seq(S)
    BY <1>3, <2>2
  <2> HIDE DEF front, behind
  <2>4. front \o behind \in Seq(S)
    BY <2>3, ConcatProperties
  <2>5. QED
    BY <1>3, <1>4, <1>6, <2>4 DEF front, behind
<1>7. QED
  BY <1>5, <1>6

\* An element behind the second of two sequences.
LEMMA AppendBehind ==
    ASSUME NEW S, NEW front \in Seq(S), NEW behind \in Seq(S), NEW new \in S
    PROVE  front \o Append(behind, new) = Append(front \o behind, new)
OBVIOUS

\* The i-th of n sequences gets longer, behind which there are only empty ones.
GrowsAt(others, seqs, n, i, new, S) ==
    /\ Len(seqs) = n /\ Len(others) = n /\ \A k \in 1 .. n : seqs[k] \in Seq(S)
    /\ others[i] = Append(seqs[i], new)
    /\ \A k \in 1 .. n : k # i => others[k] = seqs[k]
    /\ \A k \in i + 1 .. n : seqs[k] = << >>

\* When it does, what they are put together gets longer.
LEMMA FlattenAppends ==
    ASSUME NEW S, NEW n \in Nat, NEW i \in 1 .. n, NEW new \in S, NEW seqs, NEW others,
           GrowsAt(others, seqs, n, i, new, S)
    PROVE  FlattenSeq(others) = Append(FlattenSeq(seqs), new)
<1> USE DEF GrowsAt
<1>1. n # 0
  OBVIOUS
<1>2. PICK joined : Joined(joined, seqs, n) /\ FlattenSeq(seqs) = joined[n]
  BY <1>1, FlattenIs
<1>3. PICK longer : Joined(longer, others, n) /\ FlattenSeq(others) = longer[n]
  BY <1>1, FlattenIs
<1>4. \A k \in 1 .. n : joined[k] \in Seq(S)
  BY <1>2, JoinedIsSeq
<1> DEFINE Same(k) == longer[k] = IF k < i THEN joined[k] ELSE Append(joined[k], new)
           bad == {k \in 1 .. n : ~Same(k)}
<1>5. bad = {}
  <2>1. SUFFICES ASSUME bad # {}
                 PROVE  FALSE
    OBVIOUS
  <2>2. PICK m \in bad : \A j \in bad : m <= j
    <3>1. bad \subseteq Nat
      OBVIOUS
    <3> HIDE DEF bad
    <3>2. QED
      BY <2>1, <3>1, HasLowest
  <2>3. m \in 1 .. n /\ ~Same(m)
    OBVIOUS
  <2>4. /\ longer[m] = IF m = 1 THEN others[m] ELSE longer[m - 1] \o others[m]
        /\ joined[m] = IF m = 1 THEN seqs[m] ELSE joined[m - 1] \o seqs[m]
    BY <1>2, <1>3, <2>3 DEF Joined
  <2>5. m # 1 => m - 1 \in 1 .. n /\ Same(m - 1)
    <3>1. m # 1 => m - 1 \in 1 .. n /\ ~(m <= m - 1)
      BY <2>3
    <3>2. QED
      BY <2>2, <3>1
  <2> DEFINE front == joined[m - 1]
             behind == seqs[m]
  <2>6. behind \in Seq(S)
    BY <2>3
  <2>7. CASE m < i
    <3>1. others[m] = seqs[m]
      BY <2>3, <2>7
    <3>2. m # 1 => longer[m - 1] = joined[m - 1]
      BY <2>3, <2>5, <2>7
    <3>3. longer[m] = joined[m]
      BY <2>4, <3>1, <3>2
    <3>4. QED
      BY <2>3, <2>7, <3>3
  <2>8. CASE m = i
    <3>1. CASE m = 1
      <4>1. longer[m] = Append(joined[m], new)
        BY <2>4, <2>8, <3>1
      <4>2. QED
        BY <2>3, <2>8, <4>1
    <3>2. CASE m # 1
      <4>1. longer[m - 1] = front /\ front \in Seq(S)
        BY <1>4, <2>3, <2>5, <2>8, <3>2
      <4> HIDE DEF front, behind
      <4>2. front \o Append(behind, new) = Append(front \o behind, new)
        BY <2>6, <4>1, AppendBehind
      <4>3. longer[m] = Append(joined[m], new)
        BY <2>4, <2>8, <3>2, <4>1, <4>2 DEF front, behind
      <4>4. QED
        BY <2>3, <2>8, <4>3
    <3>3. QED
      BY <3>1, <3>2
  <2>9. CASE m > i
    <3>1. m # 1 /\ m \in i + 1 .. n /\ ~(m - 1 < i) /\ ~(m < i)
      BY <2>3, <2>9
    <3>2. others[m] = << >> /\ seqs[m] = << >>
      BY <2>3, <2>9, <3>1
    <3>3. longer[m - 1] = Append(front, new) /\ front \in Seq(S)
      BY <1>4, <2>3, <2>5, <3>1
    <3> HIDE DEF front, behind
    <3>4. front \o << >> = front /\ Append(front, new) \o << >> = Append(front, new)
      <4>1. Append(front, new) \in Seq(S)
        BY <3>3, AppendProperties
      <4>2. QED
        BY <3>3, <4>1, ConcatEmptySeq
    <3>5. longer[m] = Append(joined[m], new)
      BY <2>4, <3>1, <3>2, <3>3, <3>4 DEF front
    <3>6. QED
      BY <2>3, <3>1, <3>5
  <2>10. QED
    BY <2>3, <2>7, <2>8, <2>9
<1>6. n \in 1 .. n /\ ~(n < i)
  OBVIOUS
<1>7. Same(n)
  BY <1>5, <1>6
<1>8. QED
  BY <1>2, <1>3, <1>6, <1>7
-----------------------------------------------------------------------------
(* The GDBs in their line, and what is read of them.                       *)

Command == GdbChars
Chars   == Command \cup {Nul}

\* A GDB sends its script from the beginning, and is read of no more than it
\* sent; one that was not accepted was not read, one that was closed was read to
\* its end.
IsStream(gdb) ==
    /\ gdb.script \in Seq(Command)
    /\ gdb.read \in Nat /\ gdb.sent \in Nat
    /\ gdb.read <= gdb.sent /\ gdb.sent <= Len(gdb.script)
    /\ gdb.stage \in {"away", "queued", "accepted", "closed"}
    /\ gdb.stage \in {"away", "queued"} => gdb.read = 0
    /\ gdb.stage = "closed" => gdb.read = gdb.sent

\* They connect in their order, and the next one is accepted when the last one
\* was closed.
Streams(list) ==
    /\ \E n \in Nat : DOMAIN list = 1 .. n
    /\ \A i \in DOMAIN list : IsStream(list[i])
    /\ \A i, k \in DOMAIN list : i < k =>
         /\ list[i].stage = "away" => list[k].stage = "away"
         /\ list[i].stage # "closed" => list[k].stage \in {"away", "queued"}

\* The places before there is a socket that a GDB could have connected to.
SetupPlaces ==
    {"main"} \cup BeforePlaces \cup ParsePlaces \cup ImagePlaces \cup LoadPlaces \cup SocketPlaces

\* The GDB of the connection is the one that was accepted.
IsTalkedTo ==
    /\ gdbSocket # 0 => gdbs[gdbSocket].stage = "accepted"
    /\ at # "exited" => \A i \in DOMAIN gdbs : gdbs[i].stage = "accepted" => gdbSocket = i

StreamsInv ==
    /\ Streams(gdbs) /\ IsTalkedTo
    /\ at \in SetupPlaces => gdbSocket = 0
    /\ received = ReadInOrder

\* What was read of a GDB, and that it hung up.
Telling(gdb) ==
    SubSeq(gdb.script, 1, gdb.read) \o (IF gdb.stage = "closed" THEN <<Nul>> ELSE << >>)

\* The beginning of a script.
LEMMA Beginnings ==
    ASSUME NEW script \in Seq(Command), NEW n \in Nat, n <= Len(script)
    PROVE  /\ SubSeq(script, 1, n) \in Seq(Chars)
           /\ n = 0 => SubSeq(script, 1, n) = << >>
           /\ n < Len(script) =>
                /\ script[n + 1] \in Chars
                /\ SubSeq(script, 1, n + 1) = Append(SubSeq(script, 1, n), script[n + 1])
<1>1. Len(script) \in Nat
  OBVIOUS
<1>2. \A i \in 1 .. n : script[i] \in Chars
  BY <1>1 DEF Chars
<1>3. SubSeq(script, 1, n) \in Seq(Chars)
  BY <1>2, SubSeqProperties
<1>4. n = 0 => SubSeq(script, 1, n) = << >>
  BY SubSeqEmpty
<1>5. ASSUME n < Len(script)
      PROVE  /\ script[n + 1] \in Chars
             /\ SubSeq(script, 1, n + 1) = Append(SubSeq(script, 1, n), script[n + 1])
  <2>1. script[n + 1] \in Chars
    BY <1>1, <1>5 DEF Chars
  <2>2. 1 \in 1 .. Len(script) /\ n + 1 \in 1 .. Len(script) /\ (n + 1) - 1 = n
    BY <1>1, <1>5
  <2>3. SubSeq(script, 1, n + 1) = SubSeq(script, 1, (n + 1) - 1) \o <<script[n + 1]>>
    BY <2>2, SubSeqRecursiveSecond
  <2>4. Append(SubSeq(script, 1, n), script[n + 1]) = SubSeq(script, 1, n) \o <<script[n + 1]>>
    BY <1>3, <2>1, AppendIsConcat
  <2>5. QED
    BY <2>1, <2>2, <2>3, <2>4
<1>6. QED
  BY <1>3, <1>4, <1>5

\* What is read of a GDB, at first and with what comes next.
LEMMA Tellings ==
    ASSUME NEW gdb, IsStream(gdb)
    PROVE  /\ Telling(gdb) \in Seq(Chars)
           /\ gdb.stage \in {"away", "queued"} => Telling(gdb) = << >>
           /\ gdb.stage # "closed" => Telling(gdb) = SubSeq(gdb.script, 1, gdb.read)
<1> DEFINE text == SubSeq(gdb.script, 1, gdb.read)
<1>1. text \in Seq(Chars) /\ (gdb.read = 0 => text = << >>)
  <2> DEFINE script == gdb.script
             n      == gdb.read
  <2>1. script \in Seq(Command) /\ n \in Nat /\ n <= Len(script)
    BY DEF IsStream
  <2> HIDE DEF script, n
  <2>2. SubSeq(script, 1, n) \in Seq(Chars) /\ (n = 0 => SubSeq(script, 1, n) = << >>)
    BY <2>1, Beginnings
  <2>3. QED
    BY <2>2 DEF script, n
<1>2. Telling(gdb) = text \o (IF gdb.stage = "closed" THEN <<Nul>> ELSE << >>)
  BY DEF Telling
<1> HIDE DEF text
<1>3. text \o << >> = text
  BY <1>1, ConcatEmptySeq
<1>4. text \o <<Nul>> \in Seq(Chars)
  <2>1. Nul \in Chars
    BY DEF Chars
  <2>2. <<Nul>> \in Seq(Chars)
    BY <2>1
  <2>3. QED
    BY <1>1, <2>2, ConcatProperties
<1>5. gdb.stage # "closed" => Telling(gdb) = text
  BY <1>2, <1>3
<1>6. Telling(gdb) \in Seq(Chars)
  BY <1>1, <1>2, <1>4, <1>5
<1>7. QED
  BY <1>1, <1>5, <1>6 DEF text, IsStream

\* One more character is read of it.
LEMMA TellsMore ==
    ASSUME NEW gdb, NEW after, IsStream(gdb), gdb.read < gdb.sent, gdb.stage # "closed",
           after.script = gdb.script, after.read = gdb.read + 1, after.stage # "closed"
    PROVE  /\ gdb.script[gdb.read + 1] \in Chars
           /\ Telling(after) = Append(Telling(gdb), gdb.script[gdb.read + 1])
<1> DEFINE script == gdb.script
           n      == gdb.read
<1>1. script \in Seq(Command) /\ n \in Nat /\ n <= Len(script) /\ n < Len(script)
  <2>1. Len(script) \in Nat
    BY DEF IsStream
  <2>2. QED
    BY <2>1 DEF IsStream
<1>2. Telling(gdb) = SubSeq(script, 1, n)
  BY Tellings
<1>3. Telling(after) = SubSeq(script, 1, n + 1) \o << >>
  BY DEF Telling
<1> HIDE DEF script, n
<1>4. /\ SubSeq(script, 1, n) \in Seq(Chars) /\ script[n + 1] \in Chars
      /\ SubSeq(script, 1, n + 1) = Append(SubSeq(script, 1, n), script[n + 1])
  BY <1>1, Beginnings
<1> DEFINE longer == Append(SubSeq(script, 1, n), script[n + 1])
<1>5. longer \in Seq(Chars)
  BY <1>4, AppendProperties
<1>6. longer \o << >> = longer
  <2> HIDE DEF longer
  <2>1. QED
    BY <1>5, ConcatEmptySeq
<1>7. Telling(after) = Append(Telling(gdb), script[n + 1]) /\ script[n + 1] \in Chars
  BY <1>2, <1>3, <1>4, <1>6
<1>8. QED
  BY <1>7 DEF script, n

\* It is read that it hung up.
LEMMA TellsTheEnd ==
    ASSUME NEW gdb, NEW after, IsStream(gdb), gdb.stage # "closed",
           after.script = gdb.script, after.read = gdb.read, after.stage = "closed"
    PROVE  Nul \in Chars /\ Telling(after) = Append(Telling(gdb), Nul)
<1> DEFINE text == Telling(gdb)
<1>1. text = SubSeq(gdb.script, 1, gdb.read) /\ text \in Seq(Chars)
  BY Tellings
<1>2. Telling(after) = SubSeq(gdb.script, 1, gdb.read) \o <<Nul>>
  BY DEF Telling
<1>3. Nul \in Chars
  BY DEF Chars
<1> HIDE DEF text
<1>4. Append(text, Nul) = text \o <<Nul>>
  BY <1>1, <1>3, AppendIsConcat
<1>5. QED
  BY <1>1, <1>2, <1>3, <1>4 DEF text

\* What was read of all of them is the same when it is of each.
LEMMA ReadTheSame ==
    ASSUME DOMAIN gdbs' = DOMAIN gdbs,
           \A k \in DOMAIN gdbs : Telling(gdbs'[k]) = Telling(gdbs[k])
    PROVE  ReadInOrder' = ReadInOrder
<1>1. [i \in DOMAIN gdbs' |-> ReadFrom(i)'] = [i \in DOMAIN gdbs |-> ReadFrom(i)]
  BY DEF ReadFrom, Telling
<1>2. QED
  BY <1>1 DEF ReadInOrder

\* It is longer when more was read of one behind which nothing was read.
LEMMA ReadMore ==
    ASSUME Streams(gdbs), DOMAIN gdbs' = DOMAIN gdbs,
           NEW i \in DOMAIN gdbs, NEW char \in Chars,
           Telling(gdbs'[i]) = Append(Telling(gdbs[i]), char),
           \A k \in DOMAIN gdbs : k # i => Telling(gdbs'[k]) = Telling(gdbs[k]),
           \A k \in DOMAIN gdbs : i < k => gdbs[k].stage \in {"away", "queued"}
    PROVE  ReadInOrder' = Append(ReadInOrder, char)
<1>1. PICK n \in Nat : DOMAIN gdbs = 1 .. n
  BY DEF Streams
<1> DEFINE before == [k \in 1 .. n |-> Telling(gdbs[k])]
           after  == [k \in 1 .. n |-> Telling(gdbs'[k])]
<1>2. ReadInOrder = FlattenSeq(before) /\ ReadInOrder' = FlattenSeq(after)
  <2>1. [k \in DOMAIN gdbs |-> ReadFrom(k)] = before
    BY <1>1 DEF ReadFrom, Telling
  <2>2. [k \in DOMAIN gdbs' |-> ReadFrom(k)'] = after
    BY <1>1 DEF ReadFrom, Telling
  <2>3. QED
    BY <2>1, <2>2 DEF ReadInOrder
<1>3. Len(before) = n /\ Len(after) = n
  OBVIOUS
<1>4. \A k \in 1 .. n : before[k] \in Seq(Chars)
  BY <1>1, Tellings DEF Streams
<1>5. \A k \in i + 1 .. n : before[k] = << >>
  <2>1. SUFFICES ASSUME NEW k \in i + 1 .. n
                 PROVE  before[k] = << >>
    OBVIOUS
  <2>2. k \in 1 .. n /\ i < k
    BY <1>1
  <2>3. IsStream(gdbs[k]) /\ gdbs[k].stage \in {"away", "queued"}
    BY <1>1, <2>2 DEF Streams
  <2>4. QED
    BY <2>2, <2>3, Tellings
<1>6. /\ i \in 1 .. n /\ after[i] = Append(before[i], char)
      /\ \A k \in 1 .. n : k # i => after[k] = before[k]
  BY <1>1
<1> HIDE DEF before, after
<1>7. GrowsAt(after, before, n, i, char, Chars)
  BY <1>3, <1>4, <1>5, <1>6 DEF GrowsAt
<1>8. FlattenSeq(after) = Append(FlattenSeq(before), char)
  BY <1>6, <1>7, FlattenAppends
<1>9. QED
  BY <1>2, <1>8

-----------------------------------------------------------------------------
(* The steps of the GDBs and of the sockets, and the line.                 *)

\* Two states of a GDB in which the same was sent and read.
Similar(gdb, other) ==
    /\ gdb.script = other.script /\ gdb.read = other.read
    /\ gdb.sent = other.sent /\ gdb.stage = other.stage

\* Only the i-th GDB goes on.
GoesOn(new, list, i) ==
    DOMAIN new = DOMAIN list /\ \A k \in DOMAIN list : k # i => Similar(new[k], list[k])

\* A GDB that goes on keeps its place in the line.
LEMMA LineMoves ==
    ASSUME NEW list, NEW new, NEW i \in DOMAIN list, Streams(list), GoesOn(new, list, i),
           IsStream(new[i]),
           new[i].stage = "away" => list[i].stage = "away",
           list[i].stage = "closed" => new[i].stage = "closed",
           \A k \in DOMAIN list : k < i =>
             /\ list[k].stage = "away" => new[i].stage = "away"
             /\ list[k].stage # "closed" => new[i].stage \in {"away", "queued"}
    PROVE  Streams(new)
<1>1. \E n \in Nat : DOMAIN new = 1 .. n
  BY DEF Streams, GoesOn
<1>2. \A k \in DOMAIN new : IsStream(new[k])
  BY DEF Streams, GoesOn, Similar, IsStream
<1>3. ASSUME NEW j \in DOMAIN new, NEW k \in DOMAIN new, j < k
      PROVE  /\ new[j].stage = "away" => new[k].stage = "away"
             /\ new[j].stage # "closed" => new[k].stage \in {"away", "queued"}
  <2>1. /\ list[j].stage = "away" => list[k].stage = "away"
        /\ list[j].stage # "closed" => list[k].stage \in {"away", "queued"}
    BY <1>3 DEF Streams, GoesOn
  <2>2. CASE j # i /\ k # i
    BY <1>3, <2>1, <2>2 DEF GoesOn, Similar
  <2>3. CASE k = i
    <3>1. new[j].stage = list[j].stage
      <4>1. j # i
        BY <1>1, <1>3, <2>3
      <4>2. QED
        BY <4>1 DEF GoesOn, Similar
    <3>2. QED
      BY <1>3, <2>3, <3>1 DEF GoesOn
  <2>4. CASE j = i
    <3>1. new[k].stage = list[k].stage
      <4>1. k # i
        BY <1>1, <1>3, <2>4
      <4>2. QED
        BY <4>1 DEF GoesOn, Similar
    <3>2. QED
      BY <2>1, <2>4, <3>1
  <2>5. QED
    BY <2>2, <2>3, <2>4
<1>4. QED
  BY <1>1, <1>2, <1>3 DEF Streams

\* All but the i-th GDB tell what they told.
LEMMA OthersTellTheSame ==
    ASSUME NEW list, NEW new, NEW i, GoesOn(new, list, i)
    PROVE  \A k \in DOMAIN list : k # i => Telling(new[k]) = Telling(list[k])
BY DEF GoesOn, Similar, Telling

\* All before the GDB that is talked to were closed, all behind it wait.
LEMMA TalkingIsNext ==
    ASSUME Gdbs, Descriptors, Streams(gdbs), IsTalkedTo, at # "exited", CanTalk
    PROVE  /\ Talking \in DOMAIN gdbs /\ Talking # 0
           /\ gdbs[Talking].stage \in {"queued", "accepted"}
           /\ \A k \in DOMAIN gdbs : k < Talking => gdbs[k].stage = "closed"
           /\ \A k \in DOMAIN gdbs : Talking < k => gdbs[k].stage \in {"away", "queued"}
<1> DEFINE i == Talking
<1>1. i \in DOMAIN gdbs /\ i # 0 /\ (gdbSocket # 0 => i = gdbSocket)
  BY TalkingIs
<1>2. gdbSocket = 0 => i \in Queued /\ \A k \in Queued : i <= k
  <2>1. SUFFICES ASSUME gdbSocket = 0
                 PROVE  i \in Queued /\ \A k \in Queued : i <= k
    OBVIOUS
  <2> DEFINE Q == Queued
  <2>2. Q \subseteq Nat /\ Q # {}
    BY <2>1 DEF CanTalk, Queued, Gdbs, AreGdbs
  <2>3. i = Min(Q)
    BY <2>1 DEF Talking
  <2> HIDE DEF Q
  <2>4. \E m \in Q : \A k \in Q : m <= k
    BY <2>2, HasLowest
  <2>5. Min(Q) \in Q /\ \A k \in Q : Min(Q) <= k
    BY <2>4 DEF Min
  <2>6. QED
    BY <2>3, <2>5 DEF Q
<1> HIDE DEF i
<1>3. gdbs[i].stage \in {"queued", "accepted"}
  <2>1. CASE gdbSocket = 0
    BY <1>2, <2>1 DEF Queued
  <2>2. CASE gdbSocket # 0
    BY <1>1, <2>2 DEF IsTalkedTo
  <2>3. QED
    BY <2>1, <2>2
<1>4. \A k \in DOMAIN gdbs : i < k => gdbs[k].stage \in {"away", "queued"}
  BY <1>1, <1>3 DEF Streams
<1>5. ASSUME NEW k \in DOMAIN gdbs, k < i
      PROVE  gdbs[k].stage = "closed"
  <2>1. /\ gdbs[k].stage \in {"away", "queued", "accepted", "closed"}
        /\ gdbs[k].stage = "away" => gdbs[i].stage = "away"
        /\ gdbs[k].stage # "closed" => gdbs[i].stage \in {"away", "queued"}
    BY <1>1, <1>5 DEF Streams, IsStream
  <2>2. CASE gdbSocket # 0
    BY <1>1, <2>1, <2>2 DEF IsTalkedTo
  <2>3. CASE gdbSocket = 0
    <3>1. k # 0 /\ ~(i <= k)
      BY <1>1, <1>5 DEF Gdbs, AreGdbs
    <3>2. gdbs[k].stage # "queued"
      BY <1>2, <2>3, <3>1 DEF Queued
    <3>3. gdbs[k].stage # "accepted"
      BY <2>3, <3>1 DEF IsTalkedTo
    <3>4. QED
      BY <1>3, <2>1, <3>2, <3>3
  <2>4. QED
    BY <2>2, <2>3
<1>6. QED
  BY <1>1, <1>3, <1>4, <1>5 DEF i

\* The GDB that is talked to becomes or stays the accepted one.
LEMMA AcceptedInLine ==
    ASSUME Gdbs, Descriptors, StreamsInv, at # "exited", CanTalk,
           NEW i, i = Talking, gdbSocket' = i,
           GoesOn(gdbs', gdbs, i), IsStream(gdbs'[i]), gdbs'[i].stage = "accepted"
    PROVE  Streams(gdbs') /\ IsTalkedTo'
<1>1. /\ i \in DOMAIN gdbs /\ i # 0 /\ gdbs[i].stage \in {"queued", "accepted"}
      /\ \A k \in DOMAIN gdbs : k < i => gdbs[k].stage = "closed"
      /\ \A k \in DOMAIN gdbs : i < k => gdbs[k].stage \in {"away", "queued"}
  BY TalkingIsNext DEF StreamsInv
<1> DEFINE new == gdbs'
<1>2. Streams(new)
  <2>1. Streams(gdbs) /\ GoesOn(new, gdbs, i) /\ IsStream(new[i]) /\ new[i].stage = "accepted"
    BY DEF StreamsInv
  <2> HIDE DEF new
  <2>2. QED
    BY <1>1, <2>1, LineMoves
<1>3. ASSUME NEW k \in DOMAIN gdbs', gdbs'[k].stage = "accepted"
      PROVE  k = i
  <2>1. SUFFICES ASSUME k # i
                 PROVE  FALSE
    OBVIOUS
  <2>2. k \in DOMAIN gdbs /\ gdbs[k].stage = "accepted"
    BY <1>3, <2>1 DEF GoesOn, Similar
  <2>3. k < i \/ i < k
    <3>1. k \in Nat /\ i \in Nat
      BY <1>1, <2>2 DEF Gdbs, AreGdbs
    <3>2. QED
      BY <2>1, <3>1
  <2>4. QED
    BY <1>1, <2>2, <2>3
<1>4. IsTalkedTo'
  BY <1>3 DEF IsTalkedTo
<1>5. QED
  BY <1>2, <1>4

\* A GDB with another value in one of its fields.
WithStage(list, i, value)  == [list EXCEPT ![i].stage = value]
WithRead(list, i, value)   == [list EXCEPT ![i].read = value]
WithSent(list, i, value)   == [list EXCEPT ![i].sent = value]
WithHungUp(list, i, value) == [list EXCEPT ![i].hungUp = value]
WithGot(list, i, value)    == [list EXCEPT ![i].got = value]

\* A GDB gets to another stage.
LEMMA Moves_stage ==
    ASSUME NEW list, AreGdbs(list), NEW i \in DOMAIN list, NEW value,
           NEW new, new = WithStage(list, i, value)
    PROVE  /\ GoesOn(new, list, i) /\ new[i].stage = value
           /\ new[i].script = list[i].script /\ new[i].read = list[i].read
           /\ new[i].sent = list[i].sent /\ new[i].hungUp = list[i].hungUp
<1>1. DOMAIN new = DOMAIN list
  BY DEF WithStage
<1>2. /\ new[i] = [list[i] EXCEPT !.stage = value]
      /\ \A k \in DOMAIN list : k # i => new[k] = list[k]
  BY DEF WithStage
<1>3. IsGdb(list[i])
  BY DEF AreGdbs
<1>4. QED
  BY <1>1, <1>2, <1>3 DEF GoesOn, Similar, IsGdb

\* More of it is read.
LEMMA Moves_read ==
    ASSUME NEW list, AreGdbs(list), NEW i \in DOMAIN list, NEW value,
           NEW new, new = WithRead(list, i, value)
    PROVE  /\ GoesOn(new, list, i) /\ new[i].read = value
           /\ new[i].script = list[i].script /\ new[i].stage = list[i].stage
           /\ new[i].sent = list[i].sent
<1>1. DOMAIN new = DOMAIN list
  BY DEF WithRead
<1>2. /\ new[i] = [list[i] EXCEPT !.read = value]
      /\ \A k \in DOMAIN list : k # i => new[k] = list[k]
  BY DEF WithRead
<1>3. IsGdb(list[i])
  BY DEF AreGdbs
<1>4. QED
  BY <1>1, <1>2, <1>3 DEF GoesOn, Similar, IsGdb

\* It sends more.
LEMMA Moves_sent ==
    ASSUME NEW list, AreGdbs(list), NEW i \in DOMAIN list, NEW value,
           NEW new, new = WithSent(list, i, value)
    PROVE  /\ GoesOn(new, list, i) /\ new[i].sent = value
           /\ new[i].script = list[i].script /\ new[i].stage = list[i].stage
           /\ new[i].read = list[i].read
<1>1. DOMAIN new = DOMAIN list
  BY DEF WithSent
<1>2. /\ new[i] = [list[i] EXCEPT !.sent = value]
      /\ \A k \in DOMAIN list : k # i => new[k] = list[k]
  BY DEF WithSent
<1>3. IsGdb(list[i])
  BY DEF AreGdbs
<1>4. QED
  BY <1>1, <1>2, <1>3 DEF GoesOn, Similar, IsGdb

\* It hangs up.
LEMMA Moves_hungUp ==
    ASSUME NEW list, AreGdbs(list), NEW i \in DOMAIN list, NEW value,
           NEW new, new = WithHungUp(list, i, value)
    PROVE  GoesOn(new, list, i) /\ Similar(new[i], list[i])
<1>1. DOMAIN new = DOMAIN list
  BY DEF WithHungUp
<1>2. /\ new[i] = [list[i] EXCEPT !.hungUp = value]
      /\ \A k \in DOMAIN list : k # i => new[k] = list[k]
  BY DEF WithHungUp
<1>3. IsGdb(list[i])
  BY DEF AreGdbs
<1>4. QED
  BY <1>1, <1>2, <1>3 DEF GoesOn, Similar, IsGdb

\* It gets a character.
LEMMA Moves_got ==
    ASSUME NEW list, AreGdbs(list), NEW i \in DOMAIN list, NEW value,
           NEW new, new = WithGot(list, i, value)
    PROVE  GoesOn(new, list, i) /\ Similar(new[i], list[i])
<1>1. DOMAIN new = DOMAIN list
  BY DEF WithGot
<1>2. /\ new[i] = [list[i] EXCEPT !.got = value]
      /\ \A k \in DOMAIN list : k # i => new[k] = list[k]
  BY DEF WithGot
<1>3. IsGdb(list[i])
  BY DEF AreGdbs
<1>4. QED
  BY <1>1, <1>2, <1>3 DEF GoesOn, Similar, IsGdb

\* A GDB goes on twice.
LEMMA GoesOnTwice ==
    ASSUME NEW list, NEW between, NEW new, NEW i,
           GoesOn(between, list, i), GoesOn(new, between, i)
    PROVE  GoesOn(new, list, i)
BY DEF GoesOn, Similar

\* A connection is there or is accepted: nothing was read.
LEMMA AcceptReads ==
    ASSUME Gdbs, Descriptors, StreamsInv, at # "exited", CanTalk,
           NEW i, i = Talking, gdbSocket' = i, received' = received,
           GoesOn(gdbs', gdbs, i), gdbs'[i].stage = "accepted",
           gdbs'[i].script = gdbs[i].script, gdbs'[i].read = gdbs[i].read,
           gdbs'[i].sent = gdbs[i].sent
    PROVE  Streams(gdbs') /\ IsTalkedTo' /\ received' = ReadInOrder'
<1>1. i \in DOMAIN gdbs /\ gdbs[i].stage \in {"queued", "accepted"}
  BY TalkingIsNext DEF StreamsInv
<1>2. IsStream(gdbs[i])
  BY <1>1 DEF StreamsInv, Streams
<1>3. IsStream(gdbs'[i])
  BY <1>2 DEF IsStream
<1>4. Streams(gdbs') /\ IsTalkedTo'
  BY <1>3, AcceptedInLine
<1>5. Telling(gdbs'[i]) = Telling(gdbs[i])
  BY <1>1 DEF Telling
<1>6. \A k \in DOMAIN gdbs : Telling(gdbs'[k]) = Telling(gdbs[k])
  BY <1>5, OthersTellTheSame
<1>7. ReadInOrder' = ReadInOrder
  BY <1>6, ReadTheSame DEF GoesOn
<1>8. QED
  BY <1>4, <1>7 DEF StreamsInv

\* A connection is there or is accepted, and nothing else happens.
LEMMA AcceptStreams ==
    ASSUME Gdbs, Descriptors, StreamsInv, at # "exited",
           WaitForGdbConnect, gdbs' = Accepted(Talking), received' = received
    PROVE  Streams(gdbs') /\ IsTalkedTo' /\ received' = ReadInOrder'
<1> DEFINE i   == Talking
           new == gdbs'
<1>1. CanTalk /\ gdbSocket' = i
  BY DEF WaitForGdbConnect
<1>2. i \in DOMAIN gdbs
  BY <1>1, TalkingIsNext DEF StreamsInv
<1>3. /\ GoesOn(new, gdbs, i) /\ new[i].stage = "accepted"
      /\ new[i].script = gdbs[i].script /\ new[i].read = gdbs[i].read /\ new[i].sent = gdbs[i].sent
  <2>1. AreGdbs(gdbs) /\ new = WithStage(gdbs, i, "accepted")
    BY DEF Gdbs, Accepted, WithStage
  <2> HIDE DEF i, new
  <2>2. QED
    BY <1>2, <2>1, Moves_stage
<1>4. QED
  BY <1>1, <1>3, AcceptReads

\* A character is sent.
LEMMA SendStreams ==
    ASSUME Gdbs, Descriptors, StreamsInv, at # "exited", NEW transmission, SendChar(transmission)
    PROVE  Streams(gdbs') /\ IsTalkedTo' /\ received' = ReadInOrder'
<1> DEFINE i   == Talking
           mid == Accepted(i)
           new == gdbs'
           got == IF gdbs[i].hungUp THEN mid[i].got ELSE Append(mid[i].got, transmission)
<1>1. CanTalk /\ gdbSocket' = i /\ received' = received
  BY DEF SendChar, WaitForGdbConnect
<1>2. i \in DOMAIN gdbs
  BY <1>1, TalkingIsNext DEF StreamsInv
<1>3. /\ GoesOn(mid, gdbs, i) /\ mid[i].stage = "accepted"
      /\ mid[i].script = gdbs[i].script /\ mid[i].read = gdbs[i].read /\ mid[i].sent = gdbs[i].sent
  <2>1. AreGdbs(gdbs) /\ mid = WithStage(gdbs, i, "accepted")
    BY DEF Gdbs, Accepted, WithStage
  <2> HIDE DEF i, mid
  <2>2. QED
    BY <1>2, <2>1, Moves_stage
<1>4. AreGdbs(mid) /\ i \in DOMAIN mid
  <2>1. AreGdbs(mid) /\ SameGot(mid, gdbs)
    BY <1>2, Changes_stage DEF Gdbs, Accepted
  <2>2. QED
    BY <1>2, <2>1 DEF SameGot
<1>5. new = WithGot(mid, i, got)
  BY DEF SendChar, WithGot
<1> HIDE DEF mid, new, got
<1>6. GoesOn(new, mid, i) /\ Similar(new[i], mid[i])
  BY <1>4, <1>5, Moves_got
<1>7. GoesOn(new, gdbs, i)
  BY <1>3, <1>6, GoesOnTwice
<1>8. /\ new[i].stage = "accepted" /\ new[i].script = gdbs[i].script
      /\ new[i].read = gdbs[i].read /\ new[i].sent = gdbs[i].sent
  BY <1>3, <1>6 DEF Similar
<1>9. QED
  BY <1>1, <1>7, <1>8, AcceptReads DEF new

\* A character is received of the GDB that is talked to.
LEMMA ReceiveStreams ==
    ASSUME Gdbs, Descriptors, StreamsInv, at # "exited", NEW char, ReceiveChar(char)
    PROVE  Streams(gdbs') /\ IsTalkedTo' /\ received' = ReadInOrder'
<1> DEFINE i   == Talking
           mid == Accepted(i)
           new == gdbs'
<1>1. CanTalk /\ received' = Append(received, char)
  BY DEF ReceiveChar
<1>2. /\ i \in DOMAIN gdbs /\ i # 0 /\ gdbs[i].stage \in {"queued", "accepted"}
      /\ \A k \in DOMAIN gdbs : k < i => gdbs[k].stage = "closed"
      /\ \A k \in DOMAIN gdbs : i < k => gdbs[k].stage \in {"away", "queued"}
  BY <1>1, TalkingIsNext DEF StreamsInv
<1>3. /\ GoesOn(mid, gdbs, i) /\ mid[i].stage = "accepted"
      /\ mid[i].script = gdbs[i].script /\ mid[i].read = gdbs[i].read /\ mid[i].sent = gdbs[i].sent
  <2>1. AreGdbs(gdbs) /\ mid = WithStage(gdbs, i, "accepted")
    BY DEF Gdbs, Accepted, WithStage
  <2> HIDE DEF i, mid
  <2>2. QED
    BY <1>2, <2>1, Moves_stage
<1>4. AreGdbs(mid) /\ i \in DOMAIN mid
  <2>1. AreGdbs(mid) /\ SameGot(mid, gdbs)
    BY <1>2, Changes_stage DEF Gdbs, Accepted
  <2>2. QED
    BY <1>2, <2>1 DEF SameGot
<1>5. IsStream(gdbs[i]) /\ gdbs[i].stage # "closed"
  BY <1>2 DEF StreamsInv, Streams
<1>6. ASSUME char \in Chars, GoesOn(new, gdbs, i), Telling(new[i]) = Append(Telling(gdbs[i]), char)
      PROVE  received' = ReadInOrder'
  <2>1. DOMAIN new = DOMAIN gdbs /\ \A k \in DOMAIN gdbs : k # i => Telling(new[k]) = Telling(gdbs[k])
    <3>1. GoesOn(new, gdbs, i)
      BY <1>6
    <3> DEFINE list == gdbs
    <3> HIDE DEF new, i, list
    <3>2. GoesOn(new, list, i)
      BY <3>1 DEF list
    <3>3. \A k \in DOMAIN list : k # i => Telling(new[k]) = Telling(list[k])
      BY <3>2, OthersTellTheSame
    <3>4. QED
      BY <3>1, <3>3 DEF list, GoesOn
  <2> HIDE DEF i
  <2>2. ReadInOrder' = Append(ReadInOrder, char)
    BY <1>2, <1>6, <2>1, ReadMore DEF StreamsInv
  <2>3. QED
    BY <1>1, <2>2 DEF StreamsInv
<1>7. CASE /\ gdbs[i].read < gdbs[i].sent /\ char = gdbs[i].script[gdbs[i].read + 1]
           /\ new = [mid EXCEPT ![i].read = @ + 1] /\ WaitForGdbConnect
  <2>1. new = WithRead(mid, i, mid[i].read + 1) /\ gdbSocket' = i
    BY <1>7 DEF WaitForGdbConnect, WithRead
  <2> HIDE DEF mid, new, i
  <2>2. /\ GoesOn(new, mid, i) /\ new[i].read = mid[i].read + 1 /\ new[i].script = mid[i].script
        /\ new[i].stage = mid[i].stage /\ new[i].sent = mid[i].sent
    BY <1>4, <2>1, Moves_read
  <2>3. GoesOn(new, gdbs, i)
    BY <1>3, <2>2, GoesOnTwice
  <2>4. /\ new[i].stage = "accepted" /\ new[i].script = gdbs[i].script
        /\ new[i].read = gdbs[i].read + 1 /\ new[i].sent = gdbs[i].sent
    BY <1>3, <2>2
  <2>5. IsStream(new[i])
    BY <1>5, <1>7, <2>4 DEF IsStream
  <2>6. Streams(gdbs') /\ IsTalkedTo'
    BY <1>1, <2>1, <2>3, <2>4, <2>5, AcceptedInLine DEF new, i
  <2>7. char \in Chars /\ Telling(new[i]) = Append(Telling(gdbs[i]), char)
    BY <1>5, <1>7, <2>4, TellsMore
  <2>8. QED
    BY <1>6, <2>3, <2>6, <2>7
<1>8. CASE /\ gdbs[i].read = gdbs[i].sent /\ char = Nul
           /\ new = [mid EXCEPT ![i].stage = "closed"] /\ gdbSocket' = 0
  <2>0. new = WithStage(mid, i, "closed")
    BY <1>8 DEF WithStage
  <2> HIDE DEF mid, new, i
  <2>1. /\ GoesOn(new, mid, i) /\ new[i].stage = "closed" /\ new[i].script = mid[i].script
        /\ new[i].read = mid[i].read /\ new[i].sent = mid[i].sent
    BY <1>4, <2>0, Moves_stage
  <2>2. GoesOn(new, gdbs, i)
    BY <1>3, <2>1, GoesOnTwice
  <2>3. new[i].script = gdbs[i].script /\ new[i].read = gdbs[i].read /\ new[i].sent = gdbs[i].sent
    BY <1>3, <2>1
  <2>4. IsStream(new[i])
    BY <1>5, <1>8, <2>1, <2>3 DEF IsStream
  <2>5. Streams(new)
    BY <1>2, <2>1, <2>2, <2>4, LineMoves DEF StreamsInv
  <2>6. IsTalkedTo'
    <3>1. SUFFICES ASSUME NEW k \in DOMAIN new, new[k].stage = "accepted"
                   PROVE  FALSE
      BY <1>8 DEF IsTalkedTo, new
    <3>2. k # i /\ k \in DOMAIN gdbs /\ gdbs[k].stage = "accepted"
      BY <2>1, <2>2, <3>1 DEF GoesOn, Similar
    <3>3. k < i \/ i < k
      <4>1. k \in Nat /\ i \in Nat
        BY <1>2, <3>2 DEF Gdbs, AreGdbs
      <4>2. QED
        BY <3>2, <4>1
    <3>4. QED
      BY <1>2, <3>2, <3>3
  <2>7. char \in Chars /\ Telling(new[i]) = Append(Telling(gdbs[i]), char)
    BY <1>5, <1>8, <2>1, <2>3, TellsTheEnd
  <2>8. QED
    BY <1>6, <2>2, <2>5, <2>6, <2>7 DEF new
<1>9. QED
  BY <1>7, <1>8 DEF ReceiveChar

\* The GDBs connect, send and hang up: nothing is read by that.
LEMMA GdbsStream ==
    ASSUME Gdbs, Descriptors, StreamsInv, GdbActs, at' = at, at # "exited",
           gdbSocket' = gdbSocket, received' = received
    PROVE  StreamsInv'
<1> DEFINE new == gdbs'
<1>1. PICK i \in DOMAIN gdbs : Connect(i) \/ Send(i) \/ HangUp(i)
  BY DEF GdbActs
<1>2. IsStream(gdbs[i])
  BY DEF StreamsInv, Streams
<1>3. \E n \in Nat : DOMAIN gdbs = 1 .. n
  BY DEF StreamsInv, Streams
<1>4. /\ GoesOn(new, gdbs, i) /\ IsStream(new[i]) /\ Telling(new[i]) = Telling(gdbs[i])
      /\ new[i].stage = "accepted" <=> gdbs[i].stage = "accepted"
      /\ Streams(new)
  <2>1. CASE Connect(i)
    <3>1. gdbs[i].stage = "away" /\ \A k \in 1 .. i - 1 : gdbs[k].stage # "away"
      BY <2>1 DEF Connect
    <3>2. new = WithStage(gdbs, i, "queued") /\ AreGdbs(gdbs)
      BY <2>1 DEF Connect, Gdbs, WithStage
    <3> HIDE DEF new
    <3>3. /\ GoesOn(new, gdbs, i) /\ new[i].stage = "queued" /\ new[i].script = gdbs[i].script
          /\ new[i].read = gdbs[i].read /\ new[i].sent = gdbs[i].sent
      BY <3>2, Moves_stage
    <3>4. IsStream(new[i]) /\ Telling(new[i]) = Telling(gdbs[i])
      BY <1>2, <3>1, <3>3 DEF IsStream, Telling
    <3>5. \A k \in DOMAIN gdbs : k < i => gdbs[k].stage # "away"
      BY <1>3, <3>1
    <3>6. Streams(gdbs)
      BY DEF StreamsInv
    <3>7. Streams(new)
      BY <3>1, <3>3, <3>4, <3>5, <3>6, LineMoves
    <3>8. QED
      BY <3>1, <3>3, <3>4, <3>7
  <2>2. CASE Send(i)
    <3>1. /\ gdbs[i].stage \in {"queued", "accepted"} /\ gdbs[i].sent < Len(gdbs[i].script)
          /\ new = WithSent(gdbs, i, gdbs[i].sent + 1) /\ AreGdbs(gdbs)
      BY <2>2 DEF Send, Gdbs, WithSent
    <3> HIDE DEF new
    <3>2. /\ GoesOn(new, gdbs, i) /\ new[i].sent = gdbs[i].sent + 1 /\ new[i].script = gdbs[i].script
          /\ new[i].read = gdbs[i].read /\ new[i].stage = gdbs[i].stage
      BY <3>1, Moves_sent
    <3>3. Len(gdbs[i].script) \in Nat
      BY <1>2 DEF IsStream
    <3>4. IsStream(new[i]) /\ Telling(new[i]) = Telling(gdbs[i])
      <4> DEFINE length == Len(gdbs[i].script)
                 sent   == gdbs[i].sent
                 read   == gdbs[i].read
      <4>1. sent + 1 \in Nat /\ read <= sent + 1 /\ sent + 1 <= length
        <5>1. sent \in Nat /\ read \in Nat /\ read <= sent /\ sent < length /\ length \in Nat
          BY <1>2, <3>1, <3>3 DEF IsStream
        <5> HIDE DEF length, sent, read
        <5>2. QED
          BY <5>1
      <4>2. IsStream(new[i])
        BY <1>2, <3>1, <3>2, <4>1 DEF IsStream
      <4>3. QED
        BY <3>2, <4>2 DEF Telling
    <3>5. Streams(gdbs)
      BY DEF StreamsInv
    <3>6. Streams(new)
      <4>1. \A k \in DOMAIN gdbs : k < i =>
              /\ gdbs[k].stage = "away" => gdbs[i].stage = "away"
              /\ gdbs[k].stage # "closed" => gdbs[i].stage \in {"away", "queued"}
        BY <3>5 DEF Streams
      <4>2. QED
        BY <3>2, <3>4, <3>5, <4>1, LineMoves
    <3>7. QED
      BY <3>2, <3>4, <3>6
  <2>3. CASE HangUp(i)
    <3>1. new = WithHungUp(gdbs, i, TRUE) /\ AreGdbs(gdbs)
      BY <2>3 DEF HangUp, Gdbs, WithHungUp
    <3> HIDE DEF new
    <3>2. GoesOn(new, gdbs, i) /\ Similar(new[i], gdbs[i])
      BY <3>1, Moves_hungUp
    <3>3. IsStream(new[i]) /\ Telling(new[i]) = Telling(gdbs[i])
      BY <1>2, <3>2 DEF IsStream, Telling, Similar
    <3>4. Streams(gdbs)
      BY DEF StreamsInv
    <3>5. Streams(new)
      <4>1. \A k \in DOMAIN gdbs : k < i =>
              /\ gdbs[k].stage = "away" => gdbs[i].stage = "away"
              /\ gdbs[k].stage # "closed" => gdbs[i].stage \in {"away", "queued"}
        BY <3>4 DEF Streams
      <4>2. QED
        BY <3>2, <3>3, <3>4, <4>1, LineMoves DEF Similar
    <3>6. QED
      BY <3>2, <3>3, <3>5 DEF Similar
  <2>4. QED
    BY <1>1, <2>1, <2>2, <2>3
<1>5. DOMAIN new = DOMAIN gdbs /\ \A k \in DOMAIN gdbs : Telling(new[k]) = Telling(gdbs[k])
  <2> HIDE DEF new
  <2>1. QED
    BY <1>4, OthersTellTheSame DEF GoesOn
<1>6. ReadInOrder' = ReadInOrder
  BY <1>5, ReadTheSame
<1>7. \A k \in DOMAIN gdbs : new[k].stage = "accepted" <=> gdbs[k].stage = "accepted"
  <2> HIDE DEF new
  <2>1. QED
    BY <1>4 DEF GoesOn, Similar
<1>8. IsTalkedTo'
  <2>1. gdbSocket # 0 => gdbSocket \in DOMAIN gdbs
    BY DEF Descriptors
  <2>2. QED
    BY <1>5, <1>7, <2>1 DEF StreamsInv, IsTalkedTo
<1>9. QED
  BY <1>4, <1>6, <1>8 DEF StreamsInv

\* Nothing happens to the GDBs nor to the connection.
LEMMA StreamsRest ==
    ASSUME StreamsInv, gdbs' = gdbs, gdbSocket' = gdbSocket, received' = received,
           at = "exited" => at' = "exited", at' \in SetupPlaces => at \in SetupPlaces
    PROVE  StreamsInv'
<1>1. ReadInOrder' = ReadInOrder
  BY ReadTheSame
<1>2. QED
  BY <1>1 DEF StreamsInv, IsTalkedTo

-----------------------------------------------------------------------------
(* Nothing is set up again.                                                *)

\* The command line is parsed before there is a socket.
LEMMA CommandLineIsSetup == CommandLineStep => at \in SetupPlaces
BY DEF SetupPlaces, BeforePlaces, ParsePlaces, ImagePlaces, LoadPlaces, SocketPlaces,
     CommandLineStep, ParseRegionOption, Flag, BeginCommandLine, ParseFlashOption,
     ParseRamOption, ParseBreakOnStartOption, ParseGdbPortOption, ParseCodeCovOption,
     ParseRestrictOption, RefuseArgument, ParseFilenameArgument, CheckRequiredArguments,
     OpenImage, SizeImage, AllocateImage, ReadImage, LoadFromFlashImage,
     CreateRegionsFromFlashImage, ReleaseImage, CatchLoadImage, EndCommandLine, CatchCommandLine

\* The program's calls are served while it runs.
LEMMA SemihostFlow ==
    ASSUME ProcessInv, SemihostStep
    PROVE  at # "exited" /\ at' \notin SetupPlaces
<1>1. CASE HandleWriteRequest
  BY <1>1, Leaves, Unwinding DEF HandleWriteRequest, Serves, HostAnswers, HostAnswersAtOnce,
     AsksGdb, IsGdbConnectedFails, Unwinds, RunPlaces, SetupPlaces, BeforePlaces, ParsePlaces,
     ImagePlaces, LoadPlaces, SocketPlaces
<1>2. CASE WriteToConsole
  BY <1>2, Leaves, Unwinding DEF WriteToConsole, Serves, HostAnswers, HostAnswersAtOnce, AsksGdb,
     IsGdbConnectedFails, Unwinds, RunPlaces, SetupPlaces, BeforePlaces, ParsePlaces,
     ImagePlaces, LoadPlaces, SocketPlaces
<1>3. CASE HandleReadRequest
  BY <1>3, Leaves, Unwinding DEF HandleReadRequest, Serves, HostAnswers, HostAnswersAtOnce,
     AsksGdb, IsGdbConnectedFails, Unwinds, RunPlaces, SetupPlaces, BeforePlaces, ParsePlaces,
     ImagePlaces, LoadPlaces, SocketPlaces
<1>4. CASE ReadFromFile
  BY <1>4, Leaves, Unwinding DEF ReadFromFile, Serves, HostAnswers, HostAnswersAtOnce, AsksGdb,
     IsGdbConnectedFails, Unwinds, RunPlaces, SetupPlaces, BeforePlaces, ParsePlaces,
     ImagePlaces, LoadPlaces, SocketPlaces
<1>5. CASE HandleOpenRequest
  BY <1>5, Leaves, Unwinding DEF HandleOpenRequest, Serves, HostAnswers, HostAnswersAtOnce,
     AsksGdb, IsGdbConnectedFails, Unwinds, RunPlaces, SetupPlaces, BeforePlaces, ParsePlaces,
     ImagePlaces, LoadPlaces, SocketPlaces
<1>6. CASE HandleUnlinkRequest
  BY <1>6, Leaves, Unwinding DEF HandleUnlinkRequest, Serves, HostAnswers, HostAnswersAtOnce,
     AsksGdb, IsGdbConnectedFails, Unwinds, RunPlaces, SetupPlaces, BeforePlaces, ParsePlaces,
     ImagePlaces, LoadPlaces, SocketPlaces
<1>7. CASE HandleRenameRequest
  BY <1>7, Leaves, Unwinding DEF HandleRenameRequest, Serves, HostAnswers, HostAnswersAtOnce,
     AsksGdb, IsGdbConnectedFails, Unwinds, RunPlaces, SetupPlaces, BeforePlaces, ParsePlaces,
     ImagePlaces, LoadPlaces, SocketPlaces
<1>8. CASE HandleFStatRequest
  BY <1>8, Leaves, Unwinding DEF HandleFStatRequest, Serves, HostAnswers, HostAnswersAtOnce,
     AsksGdb, IsGdbConnectedFails, Unwinds, RunPlaces, SetupPlaces, BeforePlaces, ParsePlaces,
     ImagePlaces, LoadPlaces, SocketPlaces
<1>9. CASE HandleStatRequest
  BY <1>9, Leaves, Unwinding DEF HandleStatRequest, Serves, HostAnswers, HostAnswersAtOnce,
     AsksGdb, IsGdbConnectedFails, Unwinds, RunPlaces, SetupPlaces, BeforePlaces, ParsePlaces,
     ImagePlaces, LoadPlaces, SocketPlaces
<1>10. CASE HandleLSeekRequest
  BY <1>10, Leaves, Unwinding DEF HandleLSeekRequest, Serves, HostAnswers, HostAnswersAtOnce,
     AsksGdb, IsGdbConnectedFails, Unwinds, RunPlaces, SetupPlaces, BeforePlaces, ParsePlaces,
     ImagePlaces, LoadPlaces, SocketPlaces
<1>11. CASE HandleCloseRequest
  BY <1>11, Leaves, Unwinding DEF HandleCloseRequest, Serves, HostAnswers, HostAnswersAtOnce,
     AsksGdb, IsGdbConnectedFails, Unwinds, RunPlaces, SetupPlaces, BeforePlaces, ParsePlaces,
     ImagePlaces, LoadPlaces, SocketPlaces
<1>12. QED
  BY <1>1, <1>2, <1>3, <1>4, <1>5, <1>6, <1>7, <1>8, <1>9, <1>10, <1>11 DEF SemihostStep

\* The coverage comes after the run.
LEMMA CoverageFlow ==
    ASSUME ProcessInv, CoverageStep
    PROVE  at # "exited" /\ at' \notin SetupPlaces
<1>1. CASE RunCodeCoverageIfRequested
  <2>1. at = "ran" /\ exceptions.handlers = InMain /\ HasShape
    BY <1>1, Leaves DEF RunCodeCoverageIfRequested, Covers, RanPlaces
  <2>2. CASE EndTry("uninit")
    BY <2>1, <2>2, Unwinding DEF Unwinds, SetupPlaces, BeforePlaces, ParsePlaces, ImagePlaces, LoadPlaces,
       SocketPlaces
  <2>3. CASE Try("catchCoverage", "codeCoverageRun")
    BY <2>1, <2>3 DEF Try, SetupPlaces, BeforePlaces, ParsePlaces, ImagePlaces, LoadPlaces,
       SocketPlaces
  <2>4. QED
    BY <1>1, <2>2, <2>3 DEF RunCodeCoverageIfRequested
<1>2. CASE CodeCoverageRun
  BY <1>2, Leaves, Unwinding DEF CodeCoverageRun, Covers, Try, UninitPrivateData, Unwinds,
     RanPlaces, CoverPlaces, CatchPlaces, WalkPlaces, WalkedPlaces, ParseElfPlaces,
     CatchElfPlaces, ElfPlaces, SetupPlaces, BeforePlaces, ParsePlaces, ImagePlaces, LoadPlaces,
     SocketPlaces
<1>3. CASE InitPrivateData
  BY <1>3, Leaves, Unwinding DEF InitPrivateData, Covers, Try, UninitPrivateData, Unwinds,
     RanPlaces, CoverPlaces, CatchPlaces, WalkPlaces, WalkedPlaces, ParseElfPlaces,
     CatchElfPlaces, ElfPlaces, SetupPlaces, BeforePlaces, ParsePlaces, ImagePlaces, LoadPlaces,
     SocketPlaces
<1>4. CASE ParseElf
  BY <1>4, Leaves, Unwinding DEF ParseElf, Covers, Try, UninitPrivateData, Unwinds, RanPlaces,
     CoverPlaces, CatchPlaces, WalkPlaces, WalkedPlaces, ParseElfPlaces, CatchElfPlaces,
     ElfPlaces, SetupPlaces, BeforePlaces, ParsePlaces, ImagePlaces, LoadPlaces, SocketPlaces
<1>5. CASE ElfLinesParse
  BY <1>5, Leaves, Unwinding DEF ElfLinesParse, Covers, Try, UninitPrivateData, Unwinds,
     RanPlaces, CoverPlaces, CatchPlaces, WalkPlaces, WalkedPlaces, ParseElfPlaces,
     CatchElfPlaces, ElfPlaces, SetupPlaces, BeforePlaces, ParsePlaces, ImagePlaces, LoadPlaces,
     SocketPlaces
<1>6. CASE OpenPipe
  BY <1>6, Leaves, Unwinding DEF OpenPipe, Covers, Try, UninitPrivateData, Unwinds, RanPlaces,
     CoverPlaces, CatchPlaces, WalkPlaces, WalkedPlaces, ParseElfPlaces, CatchElfPlaces,
     ElfPlaces, SetupPlaces, BeforePlaces, ParsePlaces, ImagePlaces, LoadPlaces, SocketPlaces
<1>7. CASE AllocateElfLines
  BY <1>7, Leaves, Unwinding DEF AllocateElfLines, Covers, Try, UninitPrivateData, Unwinds,
     RanPlaces, CoverPlaces, CatchPlaces, WalkPlaces, WalkedPlaces, ParseElfPlaces,
     CatchElfPlaces, ElfPlaces, SetupPlaces, BeforePlaces, ParsePlaces, ImagePlaces, LoadPlaces,
     SocketPlaces
<1>8. CASE ParseElfLine
  BY <1>8, Leaves, Unwinding DEF ParseElfLine, Covers, Try, UninitPrivateData, Unwinds,
     RanPlaces, CoverPlaces, CatchPlaces, WalkPlaces, WalkedPlaces, ParseElfPlaces,
     CatchElfPlaces, ElfPlaces, SetupPlaces, BeforePlaces, ParsePlaces, ImagePlaces, LoadPlaces,
     SocketPlaces
<1>9. CASE SortElfLines
  BY <1>9, Leaves, Unwinding DEF SortElfLines, Covers, Try, UninitPrivateData, Unwinds,
     RanPlaces, CoverPlaces, CatchPlaces, WalkPlaces, WalkedPlaces, ParseElfPlaces,
     CatchElfPlaces, ElfPlaces, SetupPlaces, BeforePlaces, ParsePlaces, ImagePlaces, LoadPlaces,
     SocketPlaces
<1>10. CASE CatchElfLines
  BY <1>10, Leaves, Unwinding DEF CatchElfLines, Covers, Try, UninitPrivateData, Unwinds,
     RanPlaces, CoverPlaces, CatchPlaces, WalkPlaces, WalkedPlaces, ParseElfPlaces,
     CatchElfPlaces, ElfPlaces, SetupPlaces, BeforePlaces, ParsePlaces, ImagePlaces, LoadPlaces,
     SocketPlaces
<1>11. CASE EndParseElf
  BY <1>11, Leaves, Unwinding DEF EndParseElf, Covers, Try, UninitPrivateData, Unwinds,
     RanPlaces, CoverPlaces, CatchPlaces, WalkPlaces, WalkedPlaces, ParseElfPlaces,
     CatchElfPlaces, ElfPlaces, SetupPlaces, BeforePlaces, ParsePlaces, ImagePlaces, LoadPlaces,
     SocketPlaces
<1>12. CASE CatchParse
  BY <1>12, Leaves, Unwinding DEF CatchParse, Covers, Try, UninitPrivateData, Unwinds, RanPlaces,
     CoverPlaces, CatchPlaces, WalkPlaces, WalkedPlaces, ParseElfPlaces, CatchElfPlaces,
     ElfPlaces, SetupPlaces, BeforePlaces, ParsePlaces, ImagePlaces, LoadPlaces, SocketPlaces
<1>13. CASE OpenSummary
  BY <1>13, Leaves, Unwinding DEF OpenSummary, Covers, Try, UninitPrivateData, Unwinds,
     RanPlaces, CoverPlaces, CatchPlaces, WalkPlaces, WalkedPlaces, ParseElfPlaces,
     CatchElfPlaces, ElfPlaces, SetupPlaces, BeforePlaces, ParsePlaces, ImagePlaces, LoadPlaces,
     SocketPlaces
<1>14. CASE WalkEnds
  BY <1>14, Leaves, Unwinding DEF WalkEnds, Covers, Try, UninitPrivateData, Unwinds, RanPlaces,
     CoverPlaces, CatchPlaces, WalkPlaces, WalkedPlaces, ParseElfPlaces, CatchElfPlaces,
     ElfPlaces, SetupPlaces, BeforePlaces, ParsePlaces, ImagePlaces, LoadPlaces, SocketPlaces
<1>15. CASE WalkSourceFile
  BY <1>15, Leaves, Unwinding DEF WalkSourceFile, Covers, Try, UninitPrivateData, Unwinds,
     RanPlaces, CoverPlaces, CatchPlaces, WalkPlaces, WalkedPlaces, ParseElfPlaces,
     CatchElfPlaces, ElfPlaces, SetupPlaces, BeforePlaces, ParsePlaces, ImagePlaces, LoadPlaces,
     SocketPlaces
<1>16. CASE OpenSource
  BY <1>16, Leaves, Unwinding DEF OpenSource, Covers, Try, UninitPrivateData, Unwinds, RanPlaces,
     CoverPlaces, CatchPlaces, WalkPlaces, WalkedPlaces, ParseElfPlaces, CatchElfPlaces,
     ElfPlaces, SetupPlaces, BeforePlaces, ParsePlaces, ImagePlaces, LoadPlaces, SocketPlaces
<1>17. CASE ReadSource
  BY <1>17, Leaves, Unwinding DEF ReadSource, Covers, Try, UninitPrivateData, Unwinds, RanPlaces,
     CoverPlaces, CatchPlaces, WalkPlaces, WalkedPlaces, ParseElfPlaces, CatchElfPlaces,
     ElfPlaces, SetupPlaces, BeforePlaces, ParsePlaces, ImagePlaces, LoadPlaces, SocketPlaces
<1>18. CASE OpenDest
  BY <1>18, Leaves, Unwinding DEF OpenDest, Covers, Try, UninitPrivateData, Unwinds, RanPlaces,
     CoverPlaces, CatchPlaces, WalkPlaces, WalkedPlaces, ParseElfPlaces, CatchElfPlaces,
     ElfPlaces, SetupPlaces, BeforePlaces, ParsePlaces, ImagePlaces, LoadPlaces, SocketPlaces
<1>19. CASE WriteLine
  BY <1>19, Leaves, Unwinding DEF WriteLine, Covers, Try, UninitPrivateData, Unwinds, RanPlaces,
     CoverPlaces, CatchPlaces, WalkPlaces, WalkedPlaces, ParseElfPlaces, CatchElfPlaces,
     ElfPlaces, SetupPlaces, BeforePlaces, ParsePlaces, ImagePlaces, LoadPlaces, SocketPlaces
<1>20. CASE EndOfSource
  BY <1>20, Leaves, Unwinding DEF EndOfSource, Covers, Try, UninitPrivateData, Unwinds,
     RanPlaces, CoverPlaces, CatchPlaces, WalkPlaces, WalkedPlaces, ParseElfPlaces,
     CatchElfPlaces, ElfPlaces, SetupPlaces, BeforePlaces, ParsePlaces, ImagePlaces, LoadPlaces,
     SocketPlaces
<1>21. CASE UninitAfterWalk
  BY <1>21, Leaves, Unwinding DEF UninitAfterWalk, Covers, Try, UninitPrivateData, Unwinds,
     RanPlaces, CoverPlaces, CatchPlaces, WalkPlaces, WalkedPlaces, ParseElfPlaces,
     CatchElfPlaces, ElfPlaces, SetupPlaces, BeforePlaces, ParsePlaces, ImagePlaces, LoadPlaces,
     SocketPlaces
<1>22. CASE EndRun
  BY <1>22, Leaves, Unwinding DEF EndRun, Covers, Try, UninitPrivateData, Unwinds, RanPlaces,
     CoverPlaces, CatchPlaces, WalkPlaces, WalkedPlaces, ParseElfPlaces, CatchElfPlaces,
     ElfPlaces, SetupPlaces, BeforePlaces, ParsePlaces, ImagePlaces, LoadPlaces, SocketPlaces
<1>23. CASE CatchRun
  BY <1>23, Leaves, Unwinding DEF CatchRun, Covers, Try, UninitPrivateData, Unwinds, RanPlaces,
     CoverPlaces, CatchPlaces, WalkPlaces, WalkedPlaces, ParseElfPlaces, CatchElfPlaces,
     ElfPlaces, SetupPlaces, BeforePlaces, ParsePlaces, ImagePlaces, LoadPlaces, SocketPlaces
<1>24. CASE RethrowRun
  BY <1>24, Leaves, Unwinding DEF RethrowRun, Covers, Try, UninitPrivateData, Unwinds, RanPlaces,
     CoverPlaces, CatchPlaces, WalkPlaces, WalkedPlaces, ParseElfPlaces, CatchElfPlaces,
     ElfPlaces, SetupPlaces, BeforePlaces, ParsePlaces, ImagePlaces, LoadPlaces, SocketPlaces
<1>25. CASE EndCoverage
  BY <1>25, Leaves, Unwinding DEF EndCoverage, Covers, Try, UninitPrivateData, Unwinds,
     RanPlaces, CoverPlaces, CatchPlaces, WalkPlaces, WalkedPlaces, ParseElfPlaces,
     CatchElfPlaces, ElfPlaces, SetupPlaces, BeforePlaces, ParsePlaces, ImagePlaces, LoadPlaces,
     SocketPlaces
<1>26. CASE CatchCoverage
  BY <1>26, Leaves, Unwinding DEF CatchCoverage, Covers, Try, UninitPrivateData, Unwinds,
     RanPlaces, CoverPlaces, CatchPlaces, WalkPlaces, WalkedPlaces, ParseElfPlaces,
     CatchElfPlaces, ElfPlaces, SetupPlaces, BeforePlaces, ParsePlaces, ImagePlaces, LoadPlaces,
     SocketPlaces
<1>27. QED
  BY <1>1, <1>2, <1>3, <1>4, <1>5, <1>6, <1>7, <1>8, <1>9, <1>10, <1>11, <1>12, <1>13, <1>14,
     <1>15, <1>16, <1>17, <1>18, <1>19, <1>20, <1>21, <1>22, <1>23, <1>24, <1>25,
     <1>26 DEF CoverageStep

\* main and the run loop.
LEMMA MainFlow ==
    ASSUME ProcessInv, MainStep
    PROVE  /\ at # "exited" /\ (at' \in SetupPlaces => at \in SetupPlaces)
           /\ at' \in {"main", "commandLine"} => BeginMain
<1>1. CASE BeginMain
  BY <1>1 DEF BeginMain, SetupPlaces, BeforePlaces, ParsePlaces, ImagePlaces, LoadPlaces,
     SocketPlaces
<1>2. CASE SocketCommInit
  BY <1>2, Leaves, Unwinding DEF SocketCommInit, Try, Unwinds, SetupPlaces, BeforePlaces, ParsePlaces,
     ImagePlaces, LoadPlaces, SocketPlaces
<1>3. CASE CreateSocket
  BY <1>3, Leaves, Unwinding DEF CreateSocket, Try, Unwinds, SetupPlaces, BeforePlaces, ParsePlaces,
     ImagePlaces, LoadPlaces, SocketPlaces
<1>4. CASE BindAndListen
  BY <1>4, Leaves, Unwinding DEF BindAndListen, Try, Unwinds, SetupPlaces, BeforePlaces, ParsePlaces,
     ImagePlaces, LoadPlaces, SocketPlaces
<1>5. CASE EndSocketInit
  BY <1>5, Leaves, Unwinding DEF EndSocketInit, Try, Unwinds, SetupPlaces, BeforePlaces, ParsePlaces,
     ImagePlaces, LoadPlaces, SocketPlaces
<1>6. CASE CatchSocket
  BY <1>6, Leaves, Unwinding DEF CatchSocket, Try, Unwinds, SetupPlaces, BeforePlaces, ParsePlaces,
     ImagePlaces, LoadPlaces, SocketPlaces
<1>7. CASE Mri4SimInit
  BY <1>7, Leaves, Unwinding DEF Mri4SimInit, Try, IsGdbConnectedFails, Unwinds, RunPlaces,
     CopyPlaces, RanPlaces, SetupPlaces, BeforePlaces, ParsePlaces, ImagePlaces, LoadPlaces,
     SocketPlaces
<1>8. CASE CopyCommandLineArgumentsToStack
  BY <1>8, Leaves, Unwinding DEF CopyCommandLineArgumentsToStack, Try, IsGdbConnectedFails,
     Unwinds, RunPlaces, CopyPlaces, RanPlaces, SetupPlaces, BeforePlaces, ParsePlaces,
     ImagePlaces, LoadPlaces, SocketPlaces
<1>9. CASE EndCopy
  BY <1>9, Leaves, Unwinding DEF EndCopy, Try, IsGdbConnectedFails, Unwinds, RunPlaces,
     CopyPlaces, RanPlaces, SetupPlaces, BeforePlaces, ParsePlaces, ImagePlaces, LoadPlaces,
     SocketPlaces
<1>10. CASE CatchArguments
  BY <1>10, Leaves, Unwinding DEF CatchArguments, Try, IsGdbConnectedFails, Unwinds, RunPlaces,
     CopyPlaces, RanPlaces, SetupPlaces, BeforePlaces, ParsePlaces, ImagePlaces, LoadPlaces,
     SocketPlaces
<1>11. CASE BreakOnStart
  BY <1>11, Leaves, Unwinding DEF BreakOnStart, Try, IsGdbConnectedFails, Unwinds, RunPlaces,
     CopyPlaces, RanPlaces, SetupPlaces, BeforePlaces, ParsePlaces, ImagePlaces, LoadPlaces,
     SocketPlaces
<1>12. CASE ShouldInterruptRun
  BY <1>12, Leaves, Unwinding DEF ShouldInterruptRun, Try, IsGdbConnectedFails, Unwinds,
     RunPlaces, CopyPlaces, RanPlaces, SetupPlaces, BeforePlaces, ParsePlaces, ImagePlaces,
     LoadPlaces, SocketPlaces
<1>13. CASE PinkySimStep
  BY <1>13, Leaves, Unwinding DEF PinkySimStep, Try, IsGdbConnectedFails, Unwinds, RunPlaces,
     CopyPlaces, RanPlaces, SetupPlaces, BeforePlaces, ParsePlaces, ImagePlaces, LoadPlaces,
     SocketPlaces
<1>14. CASE IsExitSemihost
  BY <1>14, Leaves, Unwinding DEF IsExitSemihost, Try, IsGdbConnectedFails, Unwinds, RunPlaces,
     CopyPlaces, RanPlaces, SetupPlaces, BeforePlaces, ParsePlaces, ImagePlaces, LoadPlaces,
     SocketPlaces
<1>15. CASE EnteringDebugger
  BY <1>15, Leaves, Unwinding DEF EnteringDebugger, Try, IsGdbConnectedFails, Unwinds, RunPlaces,
     CopyPlaces, RanPlaces, SetupPlaces, BeforePlaces, ParsePlaces, ImagePlaces, LoadPlaces,
     SocketPlaces
<1>16. CASE BeginPacket
  BY <1>16, Leaves, Unwinding DEF BeginPacket, Try, IsGdbConnectedFails, Unwinds, RunPlaces,
     CopyPlaces, RanPlaces, SetupPlaces, BeforePlaces, ParsePlaces, ImagePlaces, LoadPlaces,
     SocketPlaces
<1>17. CASE SendPacketChar
  BY <1>17, Leaves, Unwinding DEF SendPacketChar, Try, IsGdbConnectedFails, Unwinds, RunPlaces,
     CopyPlaces, RanPlaces, SetupPlaces, BeforePlaces, ParsePlaces, ImagePlaces, LoadPlaces,
     SocketPlaces
<1>18. CASE ReceiveFails
  BY <1>18, Leaves, Unwinding DEF ReceiveFails, Try, IsGdbConnectedFails, Unwinds, RunPlaces,
     CopyPlaces, RanPlaces, SetupPlaces, BeforePlaces, ParsePlaces, ImagePlaces, LoadPlaces,
     SocketPlaces
<1>19. CASE ReceiveAcknowledge
  BY <1>19, Leaves, Unwinding DEF ReceiveAcknowledge, Try, IsGdbConnectedFails, Unwinds,
     RunPlaces, CopyPlaces, RanPlaces, SetupPlaces, BeforePlaces, ParsePlaces, ImagePlaces,
     LoadPlaces, SocketPlaces
<1>20. CASE ReceiveCommand
  BY <1>20, Leaves, Unwinding DEF ReceiveCommand, Try, IsGdbConnectedFails, Unwinds, RunPlaces,
     CopyPlaces, RanPlaces, SetupPlaces, BeforePlaces, ParsePlaces, ImagePlaces, LoadPlaces,
     SocketPlaces
<1>21. CASE SkipHardcodedBreakpoint
  BY <1>21, Leaves, Unwinding DEF SkipHardcodedBreakpoint, Try, IsGdbConnectedFails, Unwinds,
     RunPlaces, CopyPlaces, RanPlaces, SetupPlaces, BeforePlaces, ParsePlaces, ImagePlaces,
     LoadPlaces, SocketPlaces
<1>22. CASE AdvanceProgramCounter
  BY <1>22, Leaves, Unwinding DEF AdvanceProgramCounter, Try, IsGdbConnectedFails, Unwinds,
     RunPlaces, CopyPlaces, RanPlaces, SetupPlaces, BeforePlaces, ParsePlaces, ImagePlaces,
     LoadPlaces, SocketPlaces
<1>23. CASE EndMain
  BY <1>23, Leaves, Unwinding DEF EndMain, Try, IsGdbConnectedFails, Unwinds, RunPlaces,
     CopyPlaces, RanPlaces, SetupPlaces, BeforePlaces, ParsePlaces, ImagePlaces, LoadPlaces,
     SocketPlaces
<1>24. CASE CatchMain
  BY <1>24, Leaves, Unwinding DEF CatchMain, Try, IsGdbConnectedFails, Unwinds, RunPlaces,
     CopyPlaces, RanPlaces, SetupPlaces, BeforePlaces, ParsePlaces, ImagePlaces, LoadPlaces,
     SocketPlaces
<1>25. CASE UninitMain
  BY <1>25, Leaves, Unwinding DEF UninitMain, Try, IsGdbConnectedFails, Unwinds, RunPlaces,
     CopyPlaces, RanPlaces, SetupPlaces, BeforePlaces, ParsePlaces, ImagePlaces, LoadPlaces,
     SocketPlaces
<1>26. QED
  BY <1>1, <1>2, <1>3, <1>4, <1>5, <1>6, <1>7, <1>8, <1>9, <1>10, <1>11, <1>12, <1>13, <1>14,
     <1>15, <1>16, <1>17, <1>18, <1>19, <1>20, <1>21, <1>22, <1>23, <1>24, <1>25 DEF MainStep


\* The steps of main and of the run loop that move the GDBs or the connection.
LEMMA MainStreams ==
    ASSUME ProcessInv, SocketsInv, StreamsInv, MainStep
    PROVE  StreamsInv'
<1>1. at # "exited" /\ (at' \in SetupPlaces => at \in SetupPlaces)
  BY MainFlow
<1>2. Gdbs /\ Descriptors
  BY DEF SocketsInv
<1>3. ASSUME gdbs' = gdbs, gdbSocket' = gdbSocket, received' = received
      PROVE  StreamsInv'
  BY <1>1, <1>3, StreamsRest
<1>4. ASSUME Streams(gdbs') /\ IsTalkedTo' /\ received' = ReadInOrder', at' \notin SetupPlaces
      PROVE  StreamsInv'
  BY <1>4 DEF StreamsInv
<1>5. CASE UNCHANGED socket
  BY <1>3, <1>5 DEF socket, comm
<1>6. CASE CreateSocket
  BY <1>3, <1>5, <1>6 DEF CreateSocket, CreateListenSocket
<1>7. CASE CatchSocket
  <2>1. gdbSocket = 0
    BY <1>7 DEF CatchSocket, StreamsInv, SetupPlaces, BeforePlaces
  <2>2. gdbs' = gdbs /\ gdbSocket' = 0 /\ received' = received
    BY <1>7 DEF CatchSocket, CloseSockets
  <2>3. QED
    BY <1>3, <2>1, <2>2
<1>8. CASE UninitMain
  <2>1. CASE CloseSockets
    <3>1. at' = "exited" /\ gdbs' = gdbs /\ gdbSocket' = 0 /\ received' = received
      BY <1>8, <2>1 DEF UninitMain, CloseSockets
    <3>2. ReadInOrder' = ReadInOrder
      BY <3>1, ReadTheSame
    <3>3. QED
      BY <3>1, <3>2 DEF StreamsInv, IsTalkedTo
  <2>2. QED
    BY <1>5, <1>8, <2>1 DEF UninitMain
<1>9. CASE at \in RunPlaces /\ at' \notin SetupPlaces /\
           \/ WaitForGdbConnect /\ gdbs' = Accepted(Talking) /\ received' = received
           \/ \E transmission : SendChar(transmission)
           \/ \E char : ReceiveChar(char)
  <2>1. Streams(gdbs') /\ IsTalkedTo' /\ received' = ReadInOrder'
    BY <1>1, <1>2, <1>9, AcceptStreams, SendStreams, ReceiveStreams
  <2>2. QED
    BY <1>4, <1>9, <2>1
<1>10. at \in RunPlaces => at \notin SetupPlaces
  BY DEF RunPlaces, SetupPlaces, BeforePlaces, ParsePlaces, ImagePlaces, LoadPlaces, SocketPlaces
<1>11. CASE ShouldInterruptRun
  <2>1. at \in RunPlaces
    BY <1>11 DEF ShouldInterruptRun, RunPlaces
  <2>2. CASE Polls
    BY <1>1, <1>9, <1>10, <2>1, <2>2 DEF Polls
  <2>3. QED
    BY <1>5, <1>11, <2>2 DEF ShouldInterruptRun
<1>12. CASE SendPacketChar
  <2>1. at \in RunPlaces
    BY <1>12 DEF SendPacketChar, RunPlaces
  <2>2. CASE SendChar(packet.number)
    BY <1>1, <1>9, <1>10, <2>1, <2>2
  <2>3. CASE TalkFails
    BY <1>1, <1>9, <1>10, <2>1, <2>3 DEF TalkFails
  <2>4. QED
    BY <1>5, <1>12, <2>2, <2>3 DEF SendPacketChar, BrokenPipe
<1>13. CASE ReceiveFails
  <2>1. at \in RunPlaces
    BY <1>13 DEF ReceiveFails, RunPlaces
  <2>2. CASE TalkFails
    BY <1>1, <1>9, <1>10, <2>1, <2>2 DEF TalkFails
  <2>3. QED
    BY <1>5, <1>13, <2>2 DEF ReceiveFails
<1>14. CASE ReceiveAcknowledge
  <2>1. at \in RunPlaces /\ \E char : ReceiveChar(char)
    BY <1>14 DEF ReceiveAcknowledge, RunPlaces
  <2>2. QED
    BY <1>1, <1>9, <1>10, <2>1
<1>15. CASE ReceiveCommand
  <2>1. at \in RunPlaces /\ \E char : ReceiveChar(char)
    BY <1>15 DEF ReceiveCommand, RunPlaces
  <2>2. QED
    BY <1>1, <1>9, <1>10, <2>1
<1>16. BeginMain \/ SocketCommInit \/ BindAndListen \/ EndSocketInit => UNCHANGED socket
  BY DEF BeginMain, SocketCommInit, BindAndListen, EndSocketInit
<1>17. Mri4SimInit \/ CopyCommandLineArgumentsToStack \/ EndCopy \/ CatchArguments \/ BreakOnStart
         => UNCHANGED socket
  BY DEF Mri4SimInit, CopyCommandLineArgumentsToStack, EndCopy, CatchArguments, BreakOnStart
<1>18. PinkySimStep \/ IsExitSemihost \/ EnteringDebugger \/ BeginPacket => UNCHANGED socket
  BY DEF PinkySimStep, IsExitSemihost, EnteringDebugger, BeginPacket
<1>19. SkipHardcodedBreakpoint \/ AdvanceProgramCounter \/ EndMain \/ CatchMain => UNCHANGED socket
  BY DEF SkipHardcodedBreakpoint, AdvanceProgramCounter, EndMain, CatchMain
<1>20. QED
  BY <1>5, <1>6, <1>7, <1>8, <1>11, <1>12, <1>13, <1>14, <1>15, <1>16, <1>17, <1>18, <1>19
     DEF MainStep

\* The streams are in order at first.
LEMMA StreamsInit == Init => StreamsInv
<1> SUFFICES ASSUME Init
             PROVE  StreamsInv
  OBVIOUS
<1>1. PICK s \in Sessions : gdbs = [i \in DOMAIN s.scripts |-> Gdb(s.scripts[i])]
  BY DEF Init
<1>2. at = "main" /\ gdbSocket = 0 /\ received = << >>
  BY DEF Init, SocketInit
<1>3. s.scripts \in Seq(Seq(Command))
  BY SessionsAssumption DEF Command
<1>4. DOMAIN gdbs = 1 .. Len(s.scripts) /\ Len(s.scripts) \in Nat
  BY <1>1, <1>3
<1>5. ASSUME NEW i \in DOMAIN gdbs
      PROVE  IsStream(gdbs[i]) /\ gdbs[i].stage = "away"
  <2> DEFINE script == s.scripts[i]
  <2>1. script \in Seq(Command) /\ Len(script) \in Nat
    BY <1>3, <1>4
  <2>2. gdbs[i] = Gdb(script)
    BY <1>1
  <2> HIDE DEF script
  <2>3. QED
    BY <2>1, <2>2 DEF Gdb, IsStream
<1>6. Streams(gdbs)
  BY <1>4, <1>5 DEF Streams
<1>7. ReadInOrder = << >>
  <2> DEFINE n    == Len(s.scripts)
             seqs == [i \in 1 .. n |-> ReadFrom(i)]
  <2>1. ReadInOrder = FlattenSeq(seqs)
    BY <1>4 DEF ReadInOrder
  <2>2. \A i \in 1 .. n : seqs[i] = << >>
    <3>1. SUFFICES ASSUME NEW i \in 1 .. n
                   PROVE  seqs[i] = << >>
      OBVIOUS
    <3>2. Telling(gdbs[i]) = << >>
      BY <1>4, <1>5, Tellings
    <3>3. QED
      BY <3>2 DEF ReadFrom, Telling
  <2>3. Len(seqs) = n /\ n \in Nat
    BY <1>4
  <2>4. CASE n = 0
    <3>1. seqs = << >>
      BY <2>4
    <3>2. FlattenSeq(seqs) = seqs
      BY <2>3, <2>4 DEF FlattenSeq
    <3>3. QED
      BY <2>1, <3>1, <3>2
  <2>5. CASE n # 0
    <3> HIDE DEF n, seqs
    <3>1. PICK joined : Joined(joined, seqs, n) /\ FlattenSeq(seqs) = joined[n]
      BY <2>3, <2>5, FlattenIs
    <3>2. \A k \in 1 .. n : joined[k] \in Seq({})
      <4>1. \A k \in 1 .. n : seqs[k] \in Seq({})
        <5>1. << >> \in Seq({})
          BY EmptySeq
        <5>2. QED
          BY <2>2, <5>1
      <4>2. QED
        BY <2>3, <3>1, <4>1, JoinedIsSeq
    <3>3. joined[n] \in Seq({})
      BY <2>3, <2>5, <3>2
    <3>4. joined[n] = << >>
      BY <3>3
    <3>5. QED
      BY <2>1, <3>1, <3>4
  <2>6. QED
    BY <2>4, <2>5
<1>8. QED
  BY <1>2, <1>4, <1>5, <1>6, <1>7 DEF StreamsInv, IsTalkedTo

\* Every step keeps them in order.
LEMMA StreamsNext == Inv /\ StreamsInv /\ [Next]_vars => StreamsInv'
<1> SUFFICES ASSUME Inv, StreamsInv, [Next]_vars
             PROVE  StreamsInv'
  OBVIOUS
<1>1. ProcessInv /\ SocketsInv /\ Gdbs /\ Descriptors
  BY DEF Inv, SocketsInv
<1>2. CASE MainStep
  BY <1>1, <1>2, MainStreams
<1>3. CASE CommandLineStep /\ UNCHANGED <<socket, semihost, inputs, coverage, thread>>
  <2>1. at \in SetupPlaces /\ at # "exited"
    BY <1>3, CommandLineIsSetup DEF SetupPlaces, BeforePlaces, ParsePlaces, ImagePlaces,
       LoadPlaces, SocketPlaces
  <2>2. QED
    BY <1>3, <2>1, StreamsRest DEF socket, comm
<1>4. CASE SemihostStep /\ UNCHANGED <<dump, sources, coverage, thread>>
  BY <1>1, <1>4, SemihostFlow, SemihostKeepsSocket, StreamsRest DEF socket, comm
<1>5. CASE CoverageStep /\ UNCHANGED <<socket, semihost, thread>>
  BY <1>1, <1>5, CoverageFlow, StreamsRest DEF socket, comm
<1>6. CASE GdbSide
  <2>1. at # "exited" /\ at' = at /\ gdbSocket' = gdbSocket /\ received' = received /\ GdbActs
    BY <1>6 DEF GdbSide, Ended
  <2>2. QED
    BY <1>1, <2>1, GdbsStream
<1>7. CASE UNCHANGED vars
  BY <1>7, StreamsRest DEF vars, socket, comm
<1>8. QED
  BY <1>2, <1>3, <1>4, <1>5, <1>6, <1>7 DEF Next, Process

\* What the monitor reads is what each GDB sent, one after the other, and no
\* GDB is closed before all that it sent was read: for any number of GDBs and
\* any failing calls.
THEOREM StreamsAreRead == Spec => []StreamsInOrder
<1>1. StreamsInv => StreamsInOrder
  BY DEF StreamsInv, StreamsInOrder, Streams, IsStream
<1>2. Init => StreamsInv
  BY StreamsInit
<1>3. Inv /\ StreamsInv /\ [Next]_vars => StreamsInv'
  BY StreamsNext
<1>4. QED
  BY <1>1, <1>2, <1>3, ProcessIsTracked, PTL DEF Spec

-----------------------------------------------------------------------------
(* Whether the program has come to its exit, and how far its coverage is.  *)

IsList(list) == \E S : list \in Seq(S)

\* A table of rows, which no null pointer is.
IsTable(table) == IsList(table) /\ table # NoLines

\* The fields of the parser, and of the walk.
IsParse(state) ==
    /\ IsList(state.kept)
    /\ state = [read |-> state.read, kept |-> state.kept, last |-> state.last, file |-> state.file,
                didLastLineContainAddress |-> state.didLastLineContainAddress,
                isDiscardedFunction |-> state.isDiscardedFunction,
                wasDiscarding |-> state.wasDiscarding]

IsWalk(state) ==
    state = [row |-> state.row, file |-> state.file, line |-> state.line,
             executable |-> state.executable, executed |-> state.executed]

\* The files of the rows in front of one, and those the summary tells of.
Earlier(row) == {file \in {elf[k].file : k \in 1 .. row - 1} : ~ShouldSkip(file)}
Told == {summary[k][1] : k \in DOMAIN summary}

\* What every place of the walk knows.
WalkInv ==
    /\ IsTable(elf) /\ IsWalk(walk) /\ walk.row \in 1 .. Len(elf) + 1
    /\ IsList(summary) /\ \A k \in DOMAIN summary : summary[k][2] > 0

\* Between two source files the summary tells of all those passed; in a file it
\* may be told of or not, and once a line of it is executable it is passed.
Walked == WalkInv /\ Told = Earlier(walk.row)
Walking ==
    /\ WalkInv
    /\ Told \subseteq Earlier(walk.row) /\ Earlier(walk.row) \subseteq Told \cup {walk.file}
    /\ ~ShouldSkip(walk.file) /\ walk.executable \in Nat
    /\ walk.executable > 0 => walk.file \in Earlier(walk.row)

(* What is known of the program's exit and of its coverage.                *)
IsRunning  == stop # "exit" /\ summary = NoSummary
HasExited  == stop = "exit" /\ exitCode = r0
IsCovering == HasExited /\ commandLine.coverageElf # ""
Untold     == IsCovering /\ summary = NoSummary
Unread     == Untold /\ walk = AtStart
IsClear    == exceptions.code = 0

Succeeds == stop = "exit" /\ (commandLine.coverageElf = "" \/ CoverageIsComplete)
IsTold   == exitCode = IF Succeeds THEN r0 ELSE -1

RunningPlaces == SetupPlaces \cup RunPlaces \cup CopyPlaces
SourcePlaces  == {"openSource", "readSource", "openDest"}
DonePlaces    == {"uninitPrivateData", "endRun", "endCoverage", "endMain"}
FailedPlaces  == {"catchRun", "rethrowRun", "catchCoverage"}

\* The place tells whether the program is over, how far its coverage is, and
\* whether a code is left behind.
ExitInv ==
    \/ at \in RunningPlaces /\ IsRunning
    \/ at = "ran" /\ HasExited /\ summary = NoSummary /\ IsClear
    \/ at \in {"codeCoverageRun", "initPrivateData", "catchParse"} /\ Untold
    \/ at \in {"parseElf", "elfLinesParse"} /\ Unread
    \/ at \in {"openPipe", "allocateElfLines"} /\ Unread /\ IsClear
    \/ at = "readElf" /\ Unread /\ IsClear /\ IsParse(parse)
    \/ at = "catchElfLines" /\ Untold /\ ~IsClear
    \/ at = "parsedElf" /\ Untold /\ (IsClear => Unread /\ IsTable(elf))
    \/ at = "openSummary" /\ Unread /\ IsClear /\ IsTable(elf)
    \/ at = "walk" /\ IsCovering /\ IsClear /\ Walked
    \/ at \in SourcePlaces /\ IsCovering /\ IsClear /\ Walking /\ walk.row <= Len(elf)
    \/ at = "lines" /\ IsCovering /\ IsClear /\ Walking
    \/ at \in DonePlaces /\ IsCovering /\ IsClear /\ CoverageIsComplete
    \/ at \in FailedPlaces /\ IsCovering /\ ~CoverageIsComplete
    \/ at = "catchMain" /\ ~Succeeds
    \/ at \in {"uninit", "exited"} /\ IsTold
    \/ at \in EndPlaces

\* A list has the places from one to its length.
LEMMA ListPlaces ==
    ASSUME NEW list, IsList(list)
    PROVE  DOMAIN list = 1 .. Len(list) /\ Len(list) \in Nat
BY DEF IsList

\* What is appended to a list comes behind what it holds.
LEMMA AppendedList ==
    ASSUME NEW list, IsList(list), NEW last
    PROVE  /\ IsList(Append(list, last))
           /\ DOMAIN Append(list, last) = 1 .. Len(list) + 1
           /\ \A k \in 1 .. Len(list) : Append(list, last)[k] = list[k]
           /\ Append(list, last)[Len(list) + 1] = last
<1>1. PICK S : list \in Seq(S)
  BY DEF IsList
<1> DEFINE T == S \cup {last}
           longer == Append(list, last)
<1>2. list \in Seq(T) /\ last \in T
  BY <1>1
<1> HIDE DEF T
<1>3. /\ longer \in Seq(T) /\ Len(longer) = Len(list) + 1
      /\ \A k \in 1 .. Len(list) : longer[k] = list[k]
      /\ longer[Len(list) + 1] = last
  <2>1. longer \in Seq(T)
    BY <1>2, AppendProperties, Zenon
  <2>2. Len(longer) = Len(list) + 1
    BY <1>2, AppendProperties, Zenon
  <2>3. \A k \in 1 .. Len(list) : longer[k] = list[k]
    <3>1. \A k \in 1 .. Len(list) : Append(list, last)[k] = list[k]
      BY <1>2, SMT
    <3>2. QED
      BY <3>1
  <2>4. longer[Len(list) + 1] = last
    BY <1>2, AppendProperties, Zenon
  <2>5. QED
    BY <2>1, <2>2, <2>3, <2>4
<1> HIDE DEF longer
<1>4. DOMAIN longer = 1 .. Len(list) + 1
  BY <1>3
<1>5. IsList(longer)
  BY <1>3 DEF IsList
<1>6. QED
  BY <1>3, <1>4, <1>5 DEF longer

\* A part of a list from its beginning is a list.
LEMMA FrontOfList ==
    ASSUME NEW list, IsList(list)
    PROVE  IsList(Front(list))
<1>1. DOMAIN list = 1 .. Len(list) /\ Len(list) \in Nat
  BY ListPlaces
<1> DEFINE front == [k \in 1 .. Len(list) - 1 |-> list[k]]
           S == {list[k] : k \in 1 .. Len(list)}
<1>2. Front(list) = front
  <2>1. PICK T : list \in Seq(T)
    BY DEF IsList
  <2>2. Front(list) = SubSeq(list, 1, Len(list) - 1)
    BY DEF Front
  <2>3. QED
    BY <1>1, <2>1, <2>2
<1>3. front \in Seq(S)
  <2>1. CASE Len(list) = 0
    <3>1. front = << >>
      BY <2>1
    <3>2. QED
      BY <3>1
  <2>2. CASE Len(list) # 0
    <3>1. Len(list) - 1 \in Nat
      BY <1>1, <2>2
    <3>2. QED
      BY <1>1, <3>1
  <2>3. QED
    BY <2>1, <2>2
<1>4. QED
  BY <1>2, <1>3 DEF IsList

\* The parser keeps a list, and its fields.
LEMMA ParsedLine ==
    ASSUME NEW state, IsParse(state), NEW text
    PROVE  IsParse(ParseLine(state, text))
<1> DEFINE blank   == IF text.kind = "blank" THEN AtBlank(state) ELSE state
           counted == CountLast(blank)
           taken   == Take(counted, text)
<1>1. IsParse(blank)
  BY DEF IsParse, AtBlank
<1> HIDE DEF blank
<1>2. IsList(Append(blank.kept, blank.last))
  BY <1>1, AppendedList DEF IsParse
<1>3. IsParse(counted)
  BY <1>1, <1>2 DEF IsParse, CountLast
<1> HIDE DEF counted
<1>4. IsParse(taken)
  BY <1>3 DEF IsParse, Take
<1> HIDE DEF taken
<1>5. IsParse([taken EXCEPT !.read = @ + 1])
  BY <1>4 DEF IsParse
<1>6. QED
  BY <1>5 DEF ParseLine, taken, counted, blank

\* What the parser has kept in the end is a list, and sorted it is a table.
LEMMA SortedTable ==
    ASSUME NEW state, IsParse(state)
    PROVE  IsTable(Sorted(Files, ParseEnd(state)))
<1> DEFINE end  == ParseLine(state, Blank)
           rows == ParseEnd(state)
<1>1. IsParse(end)
  BY ParsedLine
<1> HIDE DEF end
<1>2. IsList(rows)
  BY <1>1, FrontOfList DEF ParseEnd, end, IsParse
<1> HIDE DEF rows
<1>3. DOMAIN rows = 1 .. Len(rows) /\ Len(rows) \in Nat
  BY <1>2, ListPlaces
<1> DEFINE row == Sorted(Files, rows)
<1>4. DOMAIN row = DOMAIN rows /\ row = [p \in DOMAIN rows |-> row[p]]
  BY DEF Sorted
<1> HIDE DEF row
<1>5. row = [p \in 1 .. Len(rows) |-> row[p]]
  BY <1>3, <1>4
<1> DEFINE sorted == [p \in 1 .. Len(rows) |-> row[p]]
           S == {row[p] : p \in 1 .. Len(rows)}
<1>6. sorted \in Seq(S)
  BY <1>3
<1>7. sorted # NoLines
  BY <1>3 DEF NoLines
<1>8. QED
  BY <1>5, <1>6, <1>7 DEF IsTable, IsList, rows, row


-----------------------------------------------------------------------------
(* The walk along the rows.                                                *)

\* Nothing that the walk's facts are about has changed.
LEMMA WalkRests ==
    ASSUME elf' = elf, walk' = walk, summary' = summary, commandLine' = commandLine
    PROVE  /\ Walked => Walked'
           /\ Walking => Walking'
           /\ CoverageIsComplete' <=> CoverageIsComplete
<1>1. \A file : ShouldSkip(file)' <=> ShouldSkip(file)
  BY DEF ShouldSkip
<1>2. Told' = Told /\ (WalkInv => WalkInv')
  BY DEF Told, WalkInv
<1>3. Earlier(walk.row)' = Earlier(walk.row)
  BY <1>1 DEF Earlier
<1>4. CoverageIsComplete' <=> CoverageIsComplete
  BY <1>1 DEF CoverageIsComplete
<1>5. Walking => Walking'
  BY <1>1, <1>2, <1>3 DEF Walking
<1>6. QED
  BY <1>2, <1>3, <1>4, <1>5 DEF Walked

\* At first no row is passed, and the summary tells of no file.
LEMMA WalkBegins ==
    ASSUME IsTable(elf), walk = AtStart, elf' = elf, walk' = walk, summary' = << >>
    PROVE  Walked'
<1>1. IsTable(elf') /\ Len(elf') \in Nat
  BY ListPlaces DEF IsTable
<1>2. IsList(summary') /\ DOMAIN summary' = {}
  BY EmptySeq DEF IsList
<1>3. walk'.row = 1 /\ IsWalk(walk')
  BY DEF AtStart, IsWalk
<1>4. WalkInv'
  BY <1>1, <1>2, <1>3 DEF WalkInv
<1>5. Told' = {}
  BY <1>2 DEF Told
<1>6. Earlier(walk.row)' = {}
  BY <1>3 DEF Earlier
<1>7. QED
  BY <1>4, <1>5, <1>6 DEF Walked

\* When the rows are at their end, the summary tells of every file.
LEMMA WalkIsComplete ==
    ASSUME Walked, walk.row > Len(elf)
    PROVE  CoverageIsComplete
<1>1. walk.row = Len(elf) + 1 /\ DOMAIN elf = 1 .. Len(elf) /\ Len(elf) \in Nat /\ elf # NoLines
  BY ListPlaces DEF Walked, WalkInv, IsTable
<1>2. summary # NoSummary
  <2>1. \A k \in DOMAIN summary : summary[k][2] > 0
    BY DEF Walked, WalkInv
  <2>2. 1 \in DOMAIN NoSummary /\ NoSummary[1][2] = 0
    BY DEF NoSummary
  <2>3. QED
    BY <2>1, <2>2
<1>3. {elf[k].file : k \in 1 .. walk.row - 1} = {row.file : row \in Range(elf)}
  BY <1>1 DEF Range
<1>4. QED
  BY <1>1, <1>2, <1>3 DEF Walked, Told, Earlier, CoverageIsComplete

\* The first place behind those with a property, from one on.
IsBehind(p, low, high, P) ==
    /\ p \in low .. high + 1 /\ (p = high + 1 \/ p \notin P)
    /\ \A k \in low .. p - 1 : k <= high /\ k \in P
    /\ Min({n \in low .. high + 1 : n > high \/ n \notin P}) = p

LEMMA Behind ==
    ASSUME NEW low \in Nat, NEW high \in Nat, low <= high + 1, NEW P
    PROVE  \E p : IsBehind(p, low, high, P)
<1> DEFINE S == {n \in low .. high + 1 : n > high \/ n \notin P}
           p == Min(S)
<1>1. S \subseteq Nat /\ high + 1 \in S
  OBVIOUS
<1>2. p \in S /\ \A j \in S : p <= j
  <2> HIDE DEF S
  <2>1. \E m \in S : \A j \in S : m <= j
    BY <1>1, HasLowest
  <2>2. QED
    BY <2>1 DEF Min
<1> HIDE DEF p
<1>3. p \in low .. high + 1 /\ (p > high \/ p \notin P)
  BY <1>2
<1>4. ASSUME NEW k \in low .. p - 1
      PROVE  k <= high /\ k \in P
  <2>1. k < p /\ k \in low .. high + 1
    BY <1>3
  <2>2. k \notin S
    <3> HIDE DEF S
    <3>1. QED
      BY <1>1, <1>2, <2>1
  <2>3. QED
    BY <2>1, <2>2
<1>5. Min(S) = p
  BY DEF p
<1>6. IsBehind(p, low, high, P)
  <2>1. p = high + 1 \/ p \notin P
    BY <1>3
  <2>2. Min({n \in low .. high + 1 : n > high \/ n \notin P}) = p
    BY <1>5
  <2>3. QED
    BY <1>3, <1>4, <2>1, <2>2, Zenon DEF IsBehind
<1>7. QED
  BY <1>6

\* Rows that all name one file add at most that file to those passed.
LEMMA EarlierGrows ==
    ASSUME NEW row \in Nat \ {0}, NEW p \in Nat, row <= p, NEW file,
           \A k \in row .. p - 1 : elf[k].file = file
    PROVE  /\ Earlier(row) \subseteq Earlier(p) /\ Earlier(p) \subseteq Earlier(row) \cup {file}
           /\ ShouldSkip(file) => Earlier(p) = Earlier(row)
           /\ p > row /\ ~ShouldSkip(file) => file \in Earlier(p)
<1>1. 1 .. row - 1 \subseteq 1 .. p - 1 /\ 1 .. p - 1 = (1 .. row - 1) \cup (row .. p - 1)
  OBVIOUS
<1>2. Earlier(row) \subseteq Earlier(p)
  BY <1>1 DEF Earlier
<1>3. Earlier(p) \subseteq Earlier(row) \cup {file}
  BY <1>1 DEF Earlier
<1>4. ASSUME ShouldSkip(file)
      PROVE  Earlier(p) = Earlier(row)
  <2>1. file \notin Earlier(p)
    BY <1>4 DEF Earlier
  <2>2. QED
    BY <1>2, <1>3, <2>1
<1>5. ASSUME p > row, ~ShouldSkip(file)
      PROVE  file \in Earlier(p)
  <2>1. row \in 1 .. p - 1 /\ elf[row].file = file
    BY <1>5
  <2>2. QED
    BY <1>5, <2>1 DEF Earlier
<1>6. QED
  BY <1>2, <1>3, <1>4, <1>5

\* What is passed does not depend on the walk.
LEMMA EarlierStays ==
    ASSUME elf' = elf, commandLine' = commandLine
    PROVE  /\ \A file : ShouldSkip(file)' <=> ShouldSkip(file)
           /\ Earlier(walk.row)' = Earlier(walk'.row)
<1>1. \A file : ShouldSkip(file)' <=> ShouldSkip(file)
  BY DEF ShouldSkip
<1>2. QED
  BY <1>1 DEF Earlier

\* The rows of a file that is skipped add none to those the summary tells of.
LEMMA WalkSkips ==
    ASSUME Walked, walk.row <= Len(elf), NEW file, file = elf[walk.row].file, ShouldSkip(file),
           elf' = elf, commandLine' = commandLine, summary' = summary,
           walk' = [walk EXCEPT !.row = PastFile(file)]
    PROVE  Walked'
<1> DEFINE P == {n \in 1 .. Len(elf) : elf[n].file = file}
<1>1. /\ walk.row \in Nat \ {0} /\ Len(elf) \in Nat /\ walk.row <= Len(elf) + 1
      /\ DOMAIN elf = 1 .. Len(elf) /\ IsTable(elf) /\ IsWalk(walk)
      /\ IsList(summary) /\ \A k \in DOMAIN summary : summary[k][2] > 0
  BY ListPlaces DEF Walked, WalkInv, IsTable
<1>2. PICK p : IsBehind(p, walk.row, Len(elf), P)
  <2> HIDE DEF P
  <2>1. QED
    BY <1>1, Behind
<1>3. PastFile(file) = p
  <2>1. {n \in walk.row .. Len(elf) + 1 : n > Len(elf) \/ elf[n].file # file} =
        {n \in walk.row .. Len(elf) + 1 : n > Len(elf) \/ n \notin P}
    BY <1>1
  <2>2. QED
    BY <1>2, <2>1, Zenon DEF PastFile, IsBehind
<1>4. p \in walk.row .. Len(elf) + 1 /\ \A k \in walk.row .. p - 1 : elf[k].file = file
  BY <1>2 DEF IsBehind
<1>5. Earlier(p) = Earlier(walk.row)
  BY <1>1, <1>4, EarlierGrows
<1>6. walk' = [walk EXCEPT !.row = p]
  BY <1>3
<1>7. walk'.row = p /\ IsWalk(walk')
  BY <1>1, <1>6 DEF IsWalk
<1>8. Told' = Told /\ Earlier(walk.row)' = Earlier(p)
  BY <1>7, EarlierStays DEF Told
<1>9. WalkInv'
  BY <1>1, <1>4, <1>7 DEF WalkInv
<1>10. QED
  BY <1>5, <1>8, <1>9 DEF Walked

\* A file that is not skipped is walked along.
LEMMA WalkEnters ==
    ASSUME Walked, walk.row <= Len(elf), NEW file, ~ShouldSkip(file),
           elf' = elf, commandLine' = commandLine, summary' = summary,
           walk' = [AtStart EXCEPT !.row = walk.row, !.file = file]
    PROVE  Walking' /\ walk'.row <= Len(elf')
<1>1. /\ walk'.row = walk.row /\ walk'.file = file /\ walk'.executable = 0 /\ IsWalk(walk')
  BY DEF AtStart, IsWalk
<1>2. Told' = Told /\ Earlier(walk.row)' = Earlier(walk.row) /\ ~ShouldSkip(walk.file)'
  <2>1. Earlier(walk.row)' = Earlier(walk'.row)
    BY EarlierStays
  <2>2. \A other : ShouldSkip(other)' <=> ShouldSkip(other)
    BY EarlierStays
  <2>3. QED
    BY <1>1, <2>1, <2>2 DEF Told, ShouldSkip
<1>3. WalkInv'
  BY <1>1 DEF Walked, WalkInv
<1>4. QED
  BY <1>1, <1>2, <1>3 DEF Walked, Walking

\* The rows about a line follow each other, up to one that is about another.
LEMMA MatchingIs ==
    ASSUME Walking
    PROVE  \E p \in walk.row .. Len(elf) + 1 :
             /\ MatchingRows = walk.row .. p - 1 /\ Cardinality(MatchingRows) = p - walk.row
             /\ \A k \in walk.row .. p - 1 : elf[k].file = walk.file
<1> DEFINE P == {n \in DOMAIN elf : Matches(n)}
           row == walk.row
<1>1. /\ row \in Nat \ {0} /\ Len(elf) \in Nat /\ row <= Len(elf) + 1 /\ DOMAIN elf = 1 .. Len(elf)
  BY ListPlaces DEF Walking, WalkInv, IsTable
<1>2. PICK p : IsBehind(p, row, Len(elf), P)
  <2> HIDE DEF P
  <2>1. QED
    BY <1>1, Behind
<1>3. /\ p \in row .. Len(elf) + 1 /\ (p = Len(elf) + 1 \/ ~Matches(p))
      /\ \A k \in row .. p - 1 : k <= Len(elf) /\ Matches(k)
  <2>1. /\ p \in row .. Len(elf) + 1 /\ (p = Len(elf) + 1 \/ p \notin P)
        /\ \A k \in row .. p - 1 : k <= Len(elf) /\ k \in P
    BY <1>2 DEF IsBehind
  <2>2. p \in DOMAIN elf \/ p = Len(elf) + 1
    BY <1>1, <2>1
  <2>3. QED
    BY <2>1, <2>2
<1> HIDE DEF row, P
<1>4. MatchingRows = row .. p - 1
  <2>1. ASSUME NEW n \in row .. Len(elf), \A k \in row .. n : Matches(k)
        PROVE  n \in row .. p - 1
    <3>1. CASE p <= n
      <4>1. p \in row .. n /\ p # Len(elf) + 1
        BY <1>1, <1>3, <3>1
      <4>2. QED
        BY <1>3, <2>1, <4>1
    <3>2. CASE ~(p <= n)
      BY <1>1, <1>3, <3>2
    <3>3. QED
      BY <3>1, <3>2
  <2>2. ASSUME NEW n \in row .. p - 1
        PROVE  n \in row .. Len(elf) /\ \A k \in row .. n : Matches(k)
    <3>1. \A k \in row .. n : k \in row .. p - 1
      BY <1>1, <1>3
    <3>2. QED
      BY <1>1, <1>3, <3>1
  <2>3. MatchingRows = {n \in row .. Len(elf) : \A k \in row .. n : Matches(k)}
    BY DEF MatchingRows, row
  <2>4. QED
    BY <2>1, <2>2, <2>3
<1>5. Cardinality(row .. p - 1) = p - row
  <2>1. Cardinality(row .. p - 1) = IF row > p - 1 THEN 0 ELSE (p - 1) - row + 1
    BY <1>1, <1>3, FS_Interval
  <2>2. QED
    BY <1>1, <1>3, <2>1
<1>6. \A k \in row .. p - 1 : elf[k].file = walk.file
  BY <1>3 DEF Matches
<1>7. QED
  BY <1>3, <1>4, <1>5, <1>6 DEF row

\* The rows about a line that is written are passed; when there are some, the
\* file is.
LEMMA WalkWrites ==
    ASSUME Walking, NEW count, elf' = elf, commandLine' = commandLine, summary' = summary,
           walk' = [walk EXCEPT !.line = @ + 1, !.row = @ + Cardinality(MatchingRows),
                                !.executable = @ + (IF MatchingRows = {} THEN 0 ELSE 1),
                                !.executed = @ + (IF count > 0 THEN 1 ELSE 0)]
    PROVE  Walking'
<1> DEFINE row == walk.row
<1>1. PICK p \in row .. Len(elf) + 1 :
             /\ MatchingRows = row .. p - 1 /\ Cardinality(MatchingRows) = p - row
             /\ \A k \in row .. p - 1 : elf[k].file = walk.file
  BY MatchingIs
<1>2. /\ row \in Nat \ {0} /\ Len(elf) \in Nat /\ p \in Nat /\ row <= p /\ walk.executable \in Nat
      /\ IsWalk(walk) /\ ~ShouldSkip(walk.file)
  BY ListPlaces DEF Walking, WalkInv, IsTable
<1>3. /\ IsWalk(walk') /\ walk'.file = walk.file /\ walk'.row = row + (p - row)
      /\ walk'.executable = walk.executable + (IF MatchingRows = {} THEN 0 ELSE 1)
  BY <1>1, <1>2 DEF IsWalk
<1>4. walk'.row = p /\ walk'.executable \in Nat
  BY <1>2, <1>3
<1>5. walk'.executable > 0 => walk.executable > 0 \/ p > row
  BY <1>1, <1>2, <1>3
<1>6. /\ Earlier(row) \subseteq Earlier(p) /\ Earlier(p) \subseteq Earlier(row) \cup {walk.file}
      /\ p > row => walk.file \in Earlier(p)
  BY <1>1, <1>2, EarlierGrows
<1>7. Told' = Told /\ Earlier(walk.row)' = Earlier(p) /\ ~ShouldSkip(walk.file)'
  <2>1. Earlier(walk.row)' = Earlier(walk'.row)
    BY EarlierStays
  <2>2. ~ShouldSkip(walk.file)'
    BY <1>2, <1>3 DEF ShouldSkip
  <2>3. QED
    BY <1>4, <2>1, <2>2 DEF Told
<1>8. WalkInv'
  BY <1>1, <1>3, <1>4, <1>2 DEF Walking, WalkInv
<1>9. QED
  BY <1>3, <1>4, <1>5, <1>6, <1>7, <1>8 DEF Walking

\* A file that had a line to execute is told of, and so are those before it.
LEMMA WalkTells ==
    ASSUME Walking, walk.executable > 0, NEW executed, elf' = elf, commandLine' = commandLine,
           walk' = walk, summary' = Append(summary, <<walk.file, walk.executable, executed>>)
    PROVE  Walked'
<1> DEFINE last == <<walk.file, walk.executable, executed>>
<1>1. IsList(summary) /\ \A k \in DOMAIN summary : summary[k][2] > 0
  BY DEF Walking, WalkInv
<1>2. last[1] = walk.file /\ last[2] > 0
  OBVIOUS
<1> HIDE DEF last
<1>3. DOMAIN summary = 1 .. Len(summary) /\ Len(summary) \in Nat
  BY <1>1, ListPlaces
<1>4. /\ IsList(summary') /\ DOMAIN summary' = 1 .. Len(summary) + 1
      /\ \A k \in 1 .. Len(summary) : summary'[k] = summary[k]
      /\ summary'[Len(summary) + 1] = last
  <2> DEFINE longer == Append(summary, last)
  <2>1. /\ IsList(longer) /\ DOMAIN longer = 1 .. Len(summary) + 1
        /\ \A k \in 1 .. Len(summary) : longer[k] = summary[k]
        /\ longer[Len(summary) + 1] = last
    BY <1>1, AppendedList
  <2>2. summary' = longer
    BY DEF last
  <2> HIDE DEF longer
  <2>3. QED
    BY <2>1, <2>2
<1>5. DOMAIN summary' = DOMAIN summary \cup {Len(summary) + 1}
  BY <1>3, <1>4
<1>6. \A k \in DOMAIN summary' : summary'[k][2] > 0
  BY <1>1, <1>2, <1>3, <1>4, <1>5
<1>7. Told' = Told \cup {walk.file}
  BY <1>2, <1>3, <1>4, <1>5 DEF Told
<1>8. Earlier(walk.row)' = Earlier(walk.row)
  BY EarlierStays
<1>9. WalkInv'
  BY <1>4, <1>6 DEF Walking, WalkInv
<1>10. QED
  BY <1>7, <1>8, <1>9 DEF Walking, Walked

-----------------------------------------------------------------------------
(* The steps of the coverage, by what a place knows.                       *)

\* A throw out of the coverage, and where it lands.
LEMMA CoverageThrows ==
    ASSUME ProcessInv, NEW exception, Throw(exception)
    PROVE  /\ at \in RanPlaces => at' = "catchMain"
           /\ at \in CoverPlaces \cup CatchPlaces => at' = "catchCoverage"
           /\ at \in WalkPlaces \cup WalkedPlaces => at' = "catchRun"
           /\ at \in ParseElfPlaces \cup CatchElfPlaces => at' = "catchParse"
           /\ at \in ElfPlaces => at' = "catchElfLines" /\
                exceptions'.code = SetExceptionCode(exceptions.code, exception)
<1>1. at \in ElfPlaces => exceptions'.code = SetExceptionCode(exceptions.code, exception)
  <2>1. at \in ElfPlaces => exceptions.handlers # << >>
    BY Leaves, Stacks DEF IsPushed
  <2>2. QED
    BY <2>1 DEF Throw
<1>2. QED
  BY <1>1, Leaves, Unwinding DEF Unwinds

\* The end of a try, when no code is set and when one is.
LEMMA CoverageTryEnds ==
    ASSUME ProcessInv, NEW place, EndTry(place)
    PROVE  /\ exceptions.code = 0 => at' = place
           /\ exceptions.code # 0 /\ at \in ParseElfPlaces => at' = "catchParse"
           /\ exceptions'.code = exceptions.code
BY Leaves, Stacks DEF EndTry, IsPushed, HasShape

\* What is known in front of a step of the coverage.
LEMMA CoverageKnows ==
    ASSUME ExitInv
    PROVE  /\ at = "ran" => HasExited /\ summary = NoSummary /\ IsClear
           /\ at \in {"codeCoverageRun", "initPrivateData", "catchParse"} => Untold
           /\ at \in {"parseElf", "elfLinesParse"} => Unread
           /\ at \in {"openPipe", "allocateElfLines"} => Unread /\ IsClear
           /\ at = "readElf" => Unread /\ IsClear /\ IsParse(parse)
           /\ at = "catchElfLines" => Untold /\ ~IsClear
           /\ at = "parsedElf" => Untold /\ (IsClear => Unread /\ IsTable(elf))
           /\ at = "openSummary" => Unread /\ IsClear /\ IsTable(elf)
           /\ at = "walk" => IsCovering /\ IsClear /\ Walked
           /\ at \in SourcePlaces => IsCovering /\ IsClear /\ Walking /\ walk.row <= Len(elf)
           /\ at = "lines" => IsCovering /\ IsClear /\ Walking
           /\ at \in DonePlaces => IsCovering /\ IsClear /\ CoverageIsComplete
           /\ at \in FailedPlaces => IsCovering /\ ~CoverageIsComplete
BY DEF ExitInv, RunningPlaces, SourcePlaces, DonePlaces, FailedPlaces, EndPlaces, SetupPlaces,
       RunPlaces, CopyPlaces, BeforePlaces, ParsePlaces, ImagePlaces, LoadPlaces, SocketPlaces

\* A summary that is not begun is not complete, nor is one with rows left.
LEMMA Incomplete == (summary = NoSummary \/ (Walking /\ walk.row <= Len(elf))) => ~CoverageIsComplete
BY ListPlaces DEF CoverageIsComplete, Walking, WalkInv, IsTable

\* The coverage leaves the program's exit and the options alone.
LEMMA CoverageKeeps ==
    ASSUME CoverageStep, UNCHANGED <<semihost, thread>>
    PROVE  /\ stop' = stop /\ exitCode' = exitCode /\ r0' = r0
           /\ UNCHANGED options /\ commandLine' = commandLine
           /\ HasExited => HasExited'
           /\ IsCovering => IsCovering'
           /\ Untold /\ summary' = summary => Untold'
           /\ Unread /\ summary' = summary /\ walk' = walk => Unread'
<1>1. stop' = stop /\ exitCode' = exitCode /\ r0' = r0
  BY DEF semihost, thread
<1>2. UNCHANGED options
  BY DEF CoverageStep, Covers, RunCodeCoverageIfRequested, CodeCoverageRun, InitPrivateData,
     ParseElf, ElfLinesParse, OpenPipe, AllocateElfLines, ParseElfLine, SortElfLines,
     CatchElfLines, EndParseElf, CatchParse, OpenSummary, WalkEnds, WalkSourceFile, OpenSource,
     ReadSource, OpenDest, WriteLine, EndOfSource, UninitAfterWalk, EndRun, CatchRun,
     RethrowRun, EndCoverage, CatchCoverage
<1>3. commandLine' = commandLine
  BY <1>2 DEF options
<1>4. QED
  BY <1>1, <1>2, <1>3 DEF HasExited, IsCovering, Untold, Unread

\* Where the program's exit and its coverage are known, they stay known.
LEMMA CoverageExits ==
    ASSUME ProcessInv, ExitInv, CoverageStep, UNCHANGED <<semihost, thread>>
    PROVE  ExitInv'
<1>1. CASE RunCodeCoverageIfRequested
  <2>1. at = "ran" /\ HasExited /\ summary = NoSummary /\ IsClear
    BY <1>1, CoverageKnows DEF RunCodeCoverageIfRequested, Covers
  <2>2. \/ at' = "uninit" /\ IsTold'
        \/ at' = "codeCoverageRun" /\ Untold'
    BY <1>1, <2>1, CoverageKeeps, CoverageTryEnds
       DEF RunCodeCoverageIfRequested, Keeps, coverage, Try, IsTold, Succeeds, HasExited, Untold,
           IsCovering, IsClear
  <2>3. QED
    BY <2>2 DEF ExitInv
<1>2. CASE CodeCoverageRun
  <2>1. at = "codeCoverageRun" /\ Untold
    BY <1>2, CoverageKnows DEF CodeCoverageRun, Covers
  <2>2. at' = "initPrivateData" /\ Untold'
    BY <1>2, <2>1, CoverageKeeps DEF CodeCoverageRun, Covers, Keeps, coverage, IsClear, Try
  <2>3. QED
    BY <2>2 DEF ExitInv
<1>3. CASE InitPrivateData
  <2>1. at = "initPrivateData" /\ Untold
    BY <1>3, CoverageKnows DEF InitPrivateData, Covers
  <2>2. /\ commandLine' = commandLine /\ (IsCovering => IsCovering')
        /\ summary' = NoSummary /\ walk' = AtStart /\ elf' = NoLines
    BY <1>3, <2>1, CoverageKeeps DEF InitPrivateData, Untold
  <2>3. Unread' /\ ~CoverageIsComplete'
    BY <2>1, <2>2 DEF Unread, Untold, CoverageIsComplete
  <2>4. at' = "parseElf" \/ at' = "catchRun"
    BY <1>3, <2>1, CoverageThrows DEF InitPrivateData, WalkPlaces
  <2>5. \/ at' = "parseElf" /\ Unread'
        \/ at' = "catchRun" /\ IsCovering' /\ ~CoverageIsComplete'
    BY <2>1, <2>2, <2>3, <2>4 DEF Untold
  <2>6. QED
    BY <2>5 DEF ExitInv, FailedPlaces
<1>4. CASE ParseElf
  <2>1. at = "parseElf" /\ Unread
    BY <1>4, CoverageKnows DEF ParseElf, Covers
  <2>2. at' = "elfLinesParse" /\ Unread'
    BY <1>4, <2>1, CoverageKeeps DEF ParseElf, Covers, Keeps, coverage, IsClear, Try
  <2>3. QED
    BY <2>2 DEF ExitInv
<1>5. CASE ElfLinesParse
  <2>1. at = "elfLinesParse" /\ Unread
    BY <1>5, CoverageKnows DEF ElfLinesParse, Covers
  <2>2. at' = "openPipe" /\ Unread' /\ IsClear'
    BY <1>5, <2>1, CoverageKeeps DEF ElfLinesParse, Covers, Keeps, coverage, IsClear, Try
  <2>3. QED
    BY <2>2 DEF ExitInv
<1>6. CASE OpenPipe
  <2>1. at = "openPipe" /\ Unread /\ IsClear
    BY <1>6, CoverageKnows DEF OpenPipe, Covers
  <2>2. \/ at' = "allocateElfLines" /\ Unread' /\ IsClear'
        \/ at' = "catchElfLines" /\ Untold' /\ ~IsClear'
    BY <1>6, <2>1, CoverageKeeps, CoverageThrows DEF OpenPipe, Covers, Keeps, coverage,
       IsClear, SetExceptionCode, Unread, fileException, outOfMemoryException, ElfPlaces
  <2>3. QED
    BY <2>2 DEF ExitInv
<1>7. CASE AllocateElfLines
  <2>1. at = "allocateElfLines" /\ Unread /\ IsClear
    BY <1>7, CoverageKnows DEF AllocateElfLines, Covers
  <2>2. Unread'
    BY <1>7, <2>1, CoverageKeeps DEF AllocateElfLines
  <2>3. IsParse(ParseStart)
    BY EmptySeq DEF ParseStart, IsParse, IsList
  <2>4. IsParse(parse)'
    BY <1>7, <2>3 DEF AllocateElfLines, IsParse
  <2>5. \/ at' = "readElf" /\ IsClear'
        \/ at' = "catchElfLines" /\ ~IsClear'
    BY <1>7, <2>1, CoverageThrows DEF AllocateElfLines, ElfPlaces, SetExceptionCode, IsClear,
       outOfMemoryException
  <2>6. \/ at' = "readElf" /\ Unread' /\ IsClear' /\ IsParse(parse)'
        \/ at' = "catchElfLines" /\ Untold' /\ ~IsClear'
    BY <2>2, <2>4, <2>5 DEF Unread
  <2>7. QED
    BY <2>6 DEF ExitInv
<1>8. CASE ParseElfLine
  <2>1. at = "readElf" /\ Unread /\ IsClear /\ IsParse(parse)
    BY <1>8, CoverageKnows DEF ParseElfLine, Covers
  <2>2. Unread'
    BY <1>8, <2>1, CoverageKeeps DEF ParseElfLine
  <2>3. \/ parse' = ParseLine(parse, dump[parse.read + 1]) /\ at' = "readElf" /\ IsClear'
        \/ at' = "catchElfLines" /\ ~IsClear'
    BY <1>8, <2>1, CoverageThrows DEF ParseElfLine, ElfPlaces, SetExceptionCode, IsClear,
       outOfMemoryException, fileException
  <2>4. parse' = ParseLine(parse, dump[parse.read + 1]) => IsParse(parse)'
    <3>1. IsParse(ParseLine(parse, dump[parse.read + 1]))
      BY <2>1, ParsedLine
    <3>2. QED
      BY <3>1 DEF IsParse
  <2>5. \/ at' = "readElf" /\ Unread' /\ IsClear' /\ IsParse(parse)'
        \/ at' = "catchElfLines" /\ Untold' /\ ~IsClear'
    BY <2>2, <2>3, <2>4 DEF Unread
  <2>6. QED
    BY <2>5 DEF ExitInv
<1>9. CASE SortElfLines
  <2>1. at = "readElf" /\ Unread /\ IsClear /\ IsParse(parse)
    BY <1>9, CoverageKnows DEF SortElfLines, Covers
  <2>2. Unread' /\ Untold'
    BY <1>9, <2>1, CoverageKeeps DEF SortElfLines, Unread
  <2>3. IsTable(elf)'
    <3>1. IsTable(Sorted(Files, ParseEnd(parse)))
      BY <2>1, SortedTable
    <3>2. elf' = Sorted(Files, ParseEnd(parse))
      BY <1>9 DEF SortElfLines
    <3>3. QED
      BY <3>1, <3>2 DEF IsTable
  <2>4. at' = "parsedElf"
    BY <1>9, <2>1, CoverageTryEnds DEF SortElfLines, IsClear
  <2>5. at' = "parsedElf" /\ Untold' /\ Unread' /\ IsTable(elf)'
    BY <2>2, <2>3, <2>4
  <2>6. QED
    BY <2>5 DEF ExitInv
<1>10. CASE CatchElfLines
  <2>1. at = "catchElfLines" /\ Untold /\ ~IsClear
    BY <1>10, CoverageKnows DEF CatchElfLines, Covers
  <2>2. at' = "parsedElf" /\ Untold' /\ ~IsClear'
    BY <1>10, <2>1, CoverageKeeps DEF CatchElfLines, Covers, Keeps, coverage, IsClear
  <2>3. QED
    BY <2>2 DEF ExitInv
<1>11. CASE EndParseElf
  <2>1. at = "parsedElf" /\ Untold /\ (IsClear => Unread /\ IsTable(elf))
    BY <1>11, CoverageKnows DEF EndParseElf, Covers
  <2>2. \/ at' = "openSummary" /\ Unread' /\ IsClear' /\ IsTable(elf)'
        \/ at' = "catchParse" /\ Untold'
    BY <1>11, <2>1, CoverageKeeps, CoverageTryEnds DEF EndParseElf, Covers, Keeps, coverage,
       IsClear, ParseElfPlaces
  <2>3. QED
    BY <2>2 DEF ExitInv
<1>12. CASE CatchParse
  <2>1. at = "catchParse" /\ Untold
    BY <1>12, CoverageKnows DEF CatchParse, Covers
  <2>2. at' = "catchRun" /\ IsCovering' /\ ~CoverageIsComplete'
    BY <1>12, <2>1, CoverageKeeps, CoverageThrows, WalkRests, Incomplete DEF CatchParse,
       Covers, Keeps, coverage, IsClear, Untold, Unread, WalkPlaces
  <2>3. QED
    BY <2>2 DEF ExitInv, FailedPlaces
<1>13. CASE OpenSummary
  <2>1. at = "openSummary" /\ Unread /\ IsClear /\ IsTable(elf)
    BY <1>13, CoverageKnows DEF OpenSummary, Covers
  <2>2. IsCovering'
    BY <2>1, CoverageKeeps DEF Unread, Untold
  <2>3. CASE Works /\ held' = held \cup {"summary"} /\ summary' = << >> /\ Goes("walk")
    <3>1. elf' = elf /\ walk' = walk /\ walk = AtStart
      BY <1>13, <2>1 DEF OpenSummary, Unread
    <3>2. Walked'
      BY <2>1, <2>3, <3>1, WalkBegins
    <3>3. QED
      BY <2>1, <2>2, <2>3, <3>2 DEF ExitInv, IsClear
  <2>4. CASE Fails /\ Throw(fileException) /\ UNCHANGED <<held, summary>>
    <3>1. ~CoverageIsComplete'
      BY <2>1, <2>4 DEF CoverageIsComplete, Unread, Untold
    <3>2. at' = "catchRun"
      BY <2>1, <2>4, CoverageThrows DEF WalkPlaces
    <3>3. QED
      BY <2>2, <3>1, <3>2 DEF ExitInv, FailedPlaces
  <2>5. QED
    BY <1>13, <2>3, <2>4 DEF OpenSummary
<1>14. CASE WalkEnds
  <2>1. at = "walk" /\ IsCovering /\ IsClear /\ Walked
    BY <1>14, CoverageKnows DEF WalkEnds, Covers
  <2>2. CoverageIsComplete
    BY <1>14, <2>1, WalkIsComplete DEF WalkEnds
  <2>3. CoverageIsComplete'
    BY <1>14, <2>2, CoverageKeeps, WalkRests DEF WalkEnds, Keeps, coverage
  <2>4. at' = "uninitPrivateData" /\ IsCovering' /\ IsClear' /\ CoverageIsComplete'
    BY <1>14, <2>1, <2>3, CoverageKeeps DEF WalkEnds, IsClear
  <2>5. QED
    BY <2>4 DEF ExitInv, DonePlaces
<1>15. CASE WalkSourceFile
  <2>1. at = "walk" /\ IsCovering /\ IsClear /\ Walked
    BY <1>15, CoverageKnows DEF WalkSourceFile, Covers
  <2>2. /\ elf' = elf /\ commandLine' = commandLine /\ summary' = summary
        /\ IsCovering' /\ IsClear' /\ walk.row <= Len(elf)
    BY <1>15, <2>1, CoverageKeeps DEF WalkSourceFile, IsClear
  <2> DEFINE file == elf[walk.row].file
  <2>3. CASE ShouldSkip(file)
    <3>1. walk' = [walk EXCEPT !.row = PastFile(file)] /\ at' = "walk"
      BY <1>15, <2>3 DEF WalkSourceFile
    <3>2. Walked'
      BY <2>1, <2>2, <2>3, <3>1, WalkSkips
    <3>3. QED
      BY <2>2, <3>1, <3>2 DEF ExitInv
  <2>4. CASE ~ShouldSkip(file)
    <3>1. walk' = [AtStart EXCEPT !.row = walk.row, !.file = file] /\ at' = "openSource"
      BY <1>15, <2>4 DEF WalkSourceFile
    <3>2. Walking' /\ walk'.row <= Len(elf')
      BY <2>1, <2>2, <2>4, <3>1, WalkEnters
    <3>3. QED
      BY <2>2, <3>1, <3>2 DEF ExitInv, SourcePlaces
  <2>5. QED
    BY <2>3, <2>4
<1>16. CASE OpenSource
  <2>1. at = "openSource" /\ IsCovering /\ IsClear /\ Walking /\ walk.row <= Len(elf)
    BY <1>16, CoverageKnows DEF OpenSource, Covers, SourcePlaces
  <2>2. \/ at' = "readSource" /\ IsCovering' /\ IsClear' /\ Walking' /\ (walk.row <= Len(elf))'
        \/ at' = "catchRun" /\ IsCovering' /\ ~CoverageIsComplete'
    BY <1>16, <2>1, CoverageKeeps, CoverageThrows, WalkRests, Incomplete DEF OpenSource,
       Covers, Keeps, coverage, IsClear, Untold, Unread, WalkPlaces
  <2>3. QED
    BY <2>2 DEF ExitInv, FailedPlaces, SourcePlaces
<1>17. CASE ReadSource
  <2>1. at = "readSource" /\ IsCovering /\ IsClear /\ Walking /\ walk.row <= Len(elf)
    BY <1>17, CoverageKnows DEF ReadSource, Covers, SourcePlaces
  <2>2. \/ at' = "openDest" /\ IsCovering' /\ IsClear' /\ Walking' /\ (walk.row <= Len(elf))'
        \/ at' = "catchRun" /\ IsCovering' /\ ~CoverageIsComplete'
    BY <1>17, <2>1, CoverageKeeps, CoverageThrows, WalkRests, Incomplete DEF ReadSource,
       Covers, Keeps, coverage, IsClear, Untold, Unread, WalkPlaces
  <2>3. QED
    BY <2>2 DEF ExitInv, FailedPlaces, SourcePlaces
<1>18. CASE OpenDest
  <2>1. at = "openDest" /\ IsCovering /\ IsClear /\ Walking /\ walk.row <= Len(elf)
    BY <1>18, CoverageKnows DEF OpenDest, Covers, SourcePlaces
  <2>2. \/ at' = "lines" /\ IsCovering' /\ IsClear' /\ Walking'
        \/ at' = "catchRun" /\ IsCovering' /\ ~CoverageIsComplete'
    BY <1>18, <2>1, CoverageKeeps, CoverageThrows, WalkRests, Incomplete DEF OpenDest, Covers,
       Keeps, coverage, IsClear, Untold, Unread, WalkPlaces
  <2>3. QED
    BY <2>2 DEF ExitInv, FailedPlaces
<1>19. CASE WriteLine
  <2>1. at = "lines" /\ IsCovering /\ IsClear /\ Walking
    BY <1>19, CoverageKnows DEF WriteLine, Covers
  <2>2. elf' = elf /\ commandLine' = commandLine /\ summary' = summary /\ IsCovering'
    BY <1>19, <2>1, CoverageKeeps DEF WriteLine
  <2>3. CASE \A n \in MatchingRows : HasReadCount(elf[n].address)
    <3> DEFINE count == IF MatchingRows = {} THEN NotExecutable ELSE MinCount(MatchingRows)
    <3>1. /\ walk' = [walk EXCEPT !.line = @ + 1, !.row = @ + Cardinality(MatchingRows),
                                  !.executable = @ + (IF MatchingRows = {} THEN 0 ELSE 1),
                                  !.executed = @ + (IF count > 0 THEN 1 ELSE 0)]
          /\ Goes("lines")
      BY <1>19, <2>3, Zenon DEF WriteLine
    <3> HIDE DEF count
    <3>2. Walking'
      BY <2>1, <2>2, <3>1, WalkWrites
    <3>3. QED
      BY <2>1, <2>2, <3>1, <3>2 DEF ExitInv, IsClear
  <2>4. CASE ~(\A n \in MatchingRows : HasReadCount(elf[n].address))
    <3>1. Throw(busErrorException) /\ walk' = walk
      BY <1>19, <2>4, Zenon DEF WriteLine
    <3>2. walk.row <= Len(elf)
      <4>1. PICK p \in walk.row .. Len(elf) + 1 : MatchingRows = walk.row .. p - 1
        BY <2>1, MatchingIs
      <4>2. walk.row .. p - 1 # {} /\ walk.row \in Nat /\ Len(elf) \in Nat
        BY <2>1, <2>4, <4>1, ListPlaces DEF Walking, WalkInv, IsTable
      <4>3. QED
        BY <4>1, <4>2
    <3>3. ~CoverageIsComplete'
      BY <2>1, <2>2, <3>1, <3>2, Incomplete, WalkRests
    <3>4. at' = "catchRun"
      BY <2>1, <3>1, CoverageThrows DEF WalkPlaces
    <3>5. QED
      BY <2>2, <3>3, <3>4 DEF ExitInv, FailedPlaces
  <2>5. QED
    BY <2>3, <2>4
<1>20. CASE EndOfSource
  <2>1. at = "lines" /\ IsCovering /\ IsClear /\ Walking
    BY <1>20, CoverageKnows DEF EndOfSource, Covers
  <2>2. elf' = elf /\ commandLine' = commandLine /\ walk' = walk /\ IsCovering'
    BY <1>20, <2>1, CoverageKeeps DEF EndOfSource
  <2>3. CASE walk.executable > 0
    <3>1. /\ summary' = Append(summary, <<walk.file, walk.executable, walk.executed>>)
          /\ at' = "walk" /\ IsClear'
      BY <1>20, <2>1, <2>3 DEF EndOfSource, IsClear
    <3>2. Walked'
      BY <2>1, <2>2, <2>3, <3>1, WalkTells
    <3>3. QED
      BY <2>2, <3>1, <3>2 DEF ExitInv
  <2>4. CASE ~(walk.executable > 0)
    BY <1>20, <2>4 DEF EndOfSource, ExitInv, EndPlaces
  <2>5. QED
    BY <2>3, <2>4
<1>21. CASE UninitAfterWalk
  <2>1. at = "uninitPrivateData" /\ IsCovering /\ IsClear /\ CoverageIsComplete
    BY <1>21, CoverageKnows DEF UninitAfterWalk, Covers, DonePlaces
  <2>2. \/ at' = "endRun" /\ IsCovering' /\ IsClear' /\ CoverageIsComplete'
        \/ at' = "crashed"
    BY <1>21, <2>1, CoverageKeeps, WalkRests DEF UninitAfterWalk, Covers, Keeps, coverage,
       IsClear, UninitPrivateData
  <2>3. QED
    BY <2>2 DEF ExitInv, DonePlaces, EndPlaces
<1>22. CASE EndRun
  <2>1. at = "endRun" /\ IsCovering /\ IsClear /\ CoverageIsComplete
    BY <1>22, CoverageKnows DEF EndRun, Covers, DonePlaces
  <2>2. at' = "endCoverage" /\ IsCovering' /\ IsClear' /\ CoverageIsComplete'
    BY <1>22, <2>1, CoverageKeeps, CoverageTryEnds, WalkRests DEF EndRun, Covers, Keeps,
       coverage, IsClear, WalkedPlaces
  <2>3. QED
    BY <2>2 DEF ExitInv, DonePlaces
<1>23. CASE CatchRun
  <2>1. at = "catchRun" /\ IsCovering /\ ~CoverageIsComplete
    BY <1>23, CoverageKnows DEF CatchRun, Covers, FailedPlaces
  <2>2. \/ at' = "rethrowRun" /\ IsCovering' /\ ~CoverageIsComplete'
        \/ at' = "crashed"
    BY <1>23, <2>1, CoverageKeeps, WalkRests DEF CatchRun, Covers, Keeps, coverage, IsClear,
       UninitPrivateData
  <2>3. QED
    BY <2>2 DEF ExitInv, EndPlaces, FailedPlaces
<1>24. CASE RethrowRun
  <2>1. at = "rethrowRun" /\ IsCovering /\ ~CoverageIsComplete
    BY <1>24, CoverageKnows DEF RethrowRun, Covers, FailedPlaces
  <2>2. at' = "catchCoverage" /\ IsCovering' /\ ~CoverageIsComplete'
    BY <1>24, <2>1, CoverageKeeps, CoverageThrows, WalkRests DEF RethrowRun, Covers, Keeps,
       coverage, IsClear, CoverPlaces
  <2>3. QED
    BY <2>2 DEF ExitInv, FailedPlaces
<1>25. CASE EndCoverage
  <2>1. at = "endCoverage" /\ IsCovering /\ IsClear /\ CoverageIsComplete
    BY <1>25, CoverageKnows DEF EndCoverage, Covers, DonePlaces
  <2>2. at' = "endMain" /\ IsCovering' /\ IsClear' /\ CoverageIsComplete'
    BY <1>25, <2>1, CoverageKeeps, CoverageTryEnds, WalkRests DEF EndCoverage, Covers, Keeps,
       coverage, IsClear, CoverPlaces
  <2>3. QED
    BY <2>2 DEF ExitInv, DonePlaces
<1>26. CASE CatchCoverage
  <2>1. at = "catchCoverage" /\ IsCovering /\ ~CoverageIsComplete
    BY <1>26, CoverageKnows DEF CatchCoverage, Covers, FailedPlaces
  <2>2. at' = "catchMain" /\ ~Succeeds'
    BY <1>26, <2>1, CoverageKeeps, CoverageThrows, WalkRests DEF CatchCoverage, Covers, Keeps,
       coverage, IsClear, Succeeds, IsCovering, RanPlaces
  <2>3. QED
    BY <2>2 DEF ExitInv
<1>27. QED
  BY <1>1, <1>2, <1>3, <1>4, <1>5, <1>6, <1>7, <1>8, <1>9, <1>10, <1>11, <1>12, <1>13, <1>14,
     <1>15, <1>16, <1>17, <1>18, <1>19, <1>20, <1>21, <1>22, <1>23, <1>24, <1>25, <1>26 DEF
     CoverageStep

-----------------------------------------------------------------------------
(* The steps before the program's exit, and those of main behind it.       *)

\* While the program runs, it has not come to its exit.
LEMMA RunningKnows ==
    ASSUME ExitInv
    PROVE  at \in RunningPlaces => IsRunning
BY DEF ExitInv, RunningPlaces, SourcePlaces, DonePlaces, FailedPlaces, EndPlaces, SetupPlaces,
   RunPlaces, CopyPlaces, BeforePlaces, ParsePlaces, ImagePlaces, LoadPlaces, SocketPlaces

\* It has not, wherever a step of the run goes to.
LEMMA RunningRests ==
    ASSUME stop' # "exit", summary' = NoSummary, at' \in RunningPlaces \cup EndPlaces \cup {"catchMain"}
    PROVE  ExitInv'
BY DEF ExitInv, IsRunning, Succeeds

\* The command line leads on to the socket, or to the catch of main.
LEMMA CommandLineGoes ==
    ASSUME ProcessInv, CommandLineStep
    PROVE  at' \in (SetupPlaces \ {"main", "commandLine"}) \cup {"catchMain"}
<1>1. CASE BeginCommandLine
  BY <1>1, Leaves, Unwinding DEF BeginCommandLine, Try, Uses, Flag, Unwinds, SetupPlaces,
     BeforePlaces, ParsePlaces, ImagePlaces, LoadPlaces, SocketPlaces
<1>2. CASE ParseFlashOption
  BY <1>2, Leaves, Unwinding DEF ParseFlashOption, Try, Uses, Flag, ParseRegionOption, Unwinds,
     SetupPlaces, BeforePlaces, ParsePlaces, ImagePlaces, LoadPlaces, SocketPlaces
<1>3. CASE ParseRamOption
  BY <1>3, Leaves, Unwinding DEF ParseRamOption, Try, Uses, Flag, ParseRegionOption, Unwinds,
     SetupPlaces, BeforePlaces, ParsePlaces, ImagePlaces, LoadPlaces, SocketPlaces
<1>4. CASE ParseBreakOnStartOption
  BY <1>4, Leaves, Unwinding DEF ParseBreakOnStartOption, Try, Uses, Flag, Unwinds,
     SetupPlaces, BeforePlaces, ParsePlaces, ImagePlaces, LoadPlaces, SocketPlaces
<1>5. CASE ParseGdbPortOption
  BY <1>5, Leaves, Unwinding DEF ParseGdbPortOption, Try, Uses, Flag, Unwinds, SetupPlaces,
     BeforePlaces, ParsePlaces, ImagePlaces, LoadPlaces, SocketPlaces
<1>6. CASE ParseCodeCovOption
  BY <1>6, Leaves, Unwinding DEF ParseCodeCovOption, Try, Uses, Flag, Unwinds, SetupPlaces,
     BeforePlaces, ParsePlaces, ImagePlaces, LoadPlaces, SocketPlaces
<1>7. CASE ParseRestrictOption
  BY <1>7, Leaves, Unwinding DEF ParseRestrictOption, Try, Uses, Flag, Unwinds, SetupPlaces,
     BeforePlaces, ParsePlaces, ImagePlaces, LoadPlaces, SocketPlaces
<1>8. CASE RefuseArgument
  BY <1>8, Leaves, Unwinding DEF RefuseArgument, Try, Uses, Flag, Unwinds, SetupPlaces,
     BeforePlaces, ParsePlaces, ImagePlaces, LoadPlaces, SocketPlaces
<1>9. CASE ParseFilenameArgument
  BY <1>9, Leaves, Unwinding DEF ParseFilenameArgument, Try, Uses, Flag, Unwinds, SetupPlaces,
     BeforePlaces, ParsePlaces, ImagePlaces, LoadPlaces, SocketPlaces
<1>10. CASE CheckRequiredArguments
  BY <1>10, Leaves, Unwinding DEF CheckRequiredArguments, Try, Uses, Flag, Unwinds,
     SetupPlaces, BeforePlaces, ParsePlaces, ImagePlaces, LoadPlaces, SocketPlaces
<1>11. CASE OpenImage
  BY <1>11, Leaves, Unwinding DEF OpenImage, Try, Uses, Flag, Unwinds, SetupPlaces,
     BeforePlaces, ParsePlaces, ImagePlaces, LoadPlaces, SocketPlaces
<1>12. CASE SizeImage
  BY <1>12, Leaves, Unwinding DEF SizeImage, Try, Uses, Flag, Unwinds, SetupPlaces,
     BeforePlaces, ParsePlaces, ImagePlaces, LoadPlaces, SocketPlaces
<1>13. CASE AllocateImage
  BY <1>13, Leaves, Unwinding DEF AllocateImage, Try, Uses, Flag, Unwinds, SetupPlaces,
     BeforePlaces, ParsePlaces, ImagePlaces, LoadPlaces, SocketPlaces
<1>14. CASE ReadImage
  BY <1>14, Leaves, Unwinding DEF ReadImage, Try, Uses, Flag, Unwinds, SetupPlaces,
     BeforePlaces, ParsePlaces, ImagePlaces, LoadPlaces, SocketPlaces
<1>15. CASE LoadFromFlashImage
  BY <1>15, Leaves, Unwinding DEF LoadFromFlashImage, Try, Uses, Flag, Unwinds, SetupPlaces,
     BeforePlaces, ParsePlaces, ImagePlaces, LoadPlaces, SocketPlaces
<1>16. CASE CreateRegionsFromFlashImage
  BY <1>16, Leaves, Unwinding DEF CreateRegionsFromFlashImage, Try, Uses, Flag, Unwinds,
     SetupPlaces, BeforePlaces, ParsePlaces, ImagePlaces, LoadPlaces, SocketPlaces
<1>17. CASE ReleaseImage
  BY <1>17, Leaves, Unwinding DEF ReleaseImage, Try, Uses, Flag, Unwinds, SetupPlaces,
     BeforePlaces, ParsePlaces, ImagePlaces, LoadPlaces, SocketPlaces
<1>18. CASE CatchLoadImage
  BY <1>18, Leaves, Unwinding DEF CatchLoadImage, Try, Uses, Flag, Unwinds, SetupPlaces,
     BeforePlaces, ParsePlaces, ImagePlaces, LoadPlaces, SocketPlaces
<1>19. CASE EndCommandLine
  BY <1>19, Leaves, Unwinding DEF EndCommandLine, Try, Uses, Flag, Unwinds, SetupPlaces,
     BeforePlaces, ParsePlaces, ImagePlaces, LoadPlaces, SocketPlaces
<1>20. CASE CatchCommandLine
  BY <1>20, Leaves, Unwinding DEF CatchCommandLine, Try, Uses, Flag, Unwinds, SetupPlaces,
     BeforePlaces, ParsePlaces, ImagePlaces, LoadPlaces, SocketPlaces
<1>21. QED
  BY <1>1, <1>2, <1>3, <1>4, <1>5, <1>6, <1>7, <1>8, <1>9, <1>10, <1>11, <1>12, <1>13, <1>14,
     <1>15, <1>16, <1>17, <1>18, <1>19, <1>20 DEF CommandLineStep

\* A call of the host leads back to the run, or to the catch of main.
LEMMA SemihostGoes ==
    ASSUME ProcessInv, SemihostStep
    PROVE  at \in RunPlaces /\ at' \in RunPlaces \cup {"catchMain"}
<1>1. CASE HandleWriteRequest
  BY <1>1, Leaves, Unwinding DEF HandleWriteRequest, Serves, HostAnswers, HostAnswersAtOnce,
     AsksGdb, IsGdbConnectedFails, Unwinds, RunPlaces
<1>2. CASE WriteToConsole
  BY <1>2, Leaves, Unwinding DEF WriteToConsole, Serves, HostAnswers, HostAnswersAtOnce,
     AsksGdb, IsGdbConnectedFails, Unwinds, RunPlaces
<1>3. CASE HandleReadRequest
  BY <1>3, Leaves, Unwinding DEF HandleReadRequest, Serves, HostAnswers, HostAnswersAtOnce,
     AsksGdb, IsGdbConnectedFails, Unwinds, RunPlaces
<1>4. CASE ReadFromFile
  BY <1>4, Leaves, Unwinding DEF ReadFromFile, Serves, HostAnswers, HostAnswersAtOnce, AsksGdb,
     IsGdbConnectedFails, Unwinds, RunPlaces
<1>5. CASE HandleOpenRequest
  BY <1>5, Leaves, Unwinding DEF HandleOpenRequest, Serves, HostAnswers, HostAnswersAtOnce,
     AsksGdb, IsGdbConnectedFails, Unwinds, RunPlaces
<1>6. CASE HandleUnlinkRequest
  BY <1>6, Leaves, Unwinding DEF HandleUnlinkRequest, Serves, HostAnswers, HostAnswersAtOnce,
     AsksGdb, IsGdbConnectedFails, Unwinds, RunPlaces
<1>7. CASE HandleRenameRequest
  BY <1>7, Leaves, Unwinding DEF HandleRenameRequest, Serves, HostAnswers, HostAnswersAtOnce,
     AsksGdb, IsGdbConnectedFails, Unwinds, RunPlaces
<1>8. CASE HandleFStatRequest
  BY <1>8, Leaves, Unwinding DEF HandleFStatRequest, Serves, HostAnswers, HostAnswersAtOnce,
     AsksGdb, IsGdbConnectedFails, Unwinds, RunPlaces
<1>9. CASE HandleStatRequest
  BY <1>9, Leaves, Unwinding DEF HandleStatRequest, Serves, HostAnswers, HostAnswersAtOnce,
     AsksGdb, IsGdbConnectedFails, Unwinds, RunPlaces
<1>10. CASE HandleLSeekRequest
  BY <1>10, Leaves, Unwinding DEF HandleLSeekRequest, Serves, HostAnswers, HostAnswersAtOnce,
     AsksGdb, IsGdbConnectedFails, Unwinds, RunPlaces
<1>11. CASE HandleCloseRequest
  BY <1>11, Leaves, Unwinding DEF HandleCloseRequest, Serves, HostAnswers, HostAnswersAtOnce,
     AsksGdb, IsGdbConnectedFails, Unwinds, RunPlaces
<1>12. QED
  BY <1>1, <1>2, <1>3, <1>4, <1>5, <1>6, <1>7, <1>8, <1>9, <1>10, <1>11 DEF SemihostStep

\* The steps of main in front of the exit.
RunStep ==
    \/ BeginMain \/ SocketCommInit \/ CreateSocket \/ BindAndListen
    \/ EndSocketInit \/ CatchSocket \/ Mri4SimInit \/ CopyCommandLineArgumentsToStack
    \/ EndCopy \/ CatchArguments \/ BreakOnStart \/ ShouldInterruptRun
    \/ PinkySimStep \/ EnteringDebugger \/ BeginPacket \/ SendPacketChar
    \/ ReceiveFails \/ ReceiveAcknowledge \/ ReceiveCommand \/ SkipHardcodedBreakpoint
    \/ AdvanceProgramCounter

\* They lead on to the run, to the catch of main, or to a signal.
LEMMA RunGoes ==
    ASSUME ProcessInv, RunStep
    PROVE  /\ at \in RunningPlaces /\ at' \in RunningPlaces \cup EndPlaces \cup {"catchMain"}
           /\ stop' = stop \/ stop' # "exit"
           /\ summary' = summary
<1>1. CASE BeginMain
  BY <1>1, Leaves, Unwinding DEF BeginMain, KeepsFiles, thread, coverage, Try, Unwinds,
     RunningPlaces, SetupPlaces, BeforePlaces, SocketPlaces
<1>2. CASE SocketCommInit
  BY <1>2, Leaves, Unwinding DEF SocketCommInit, KeepsFiles, thread, coverage, Try, Unwinds,
     RunningPlaces, SetupPlaces, BeforePlaces, SocketPlaces
<1>3. CASE CreateSocket
  BY <1>3, Leaves, Unwinding DEF CreateSocket, KeepsFiles, thread, coverage, Unwinds,
     RunningPlaces, SetupPlaces, BeforePlaces, SocketPlaces
<1>4. CASE BindAndListen
  BY <1>4, Leaves, Unwinding DEF BindAndListen, KeepsFiles, thread, coverage, Unwinds,
     RunningPlaces, SetupPlaces, BeforePlaces, SocketPlaces
<1>5. CASE EndSocketInit
  BY <1>5, Leaves, Unwinding DEF EndSocketInit, KeepsFiles, coverage, Try, Unwinds,
     RunningPlaces, SetupPlaces, BeforePlaces, SocketPlaces, RunPlaces
<1>6. CASE CatchSocket
  BY <1>6, Leaves, Unwinding DEF CatchSocket, KeepsFiles, thread, coverage, Unwinds,
     RunningPlaces, SetupPlaces, BeforePlaces, SocketPlaces
<1>7. CASE Mri4SimInit
  BY <1>7, Leaves, Unwinding DEF Mri4SimInit, KeepsFiles, thread, coverage, Try, Unwinds,
     RunningPlaces, RunPlaces, CopyPlaces
<1>8. CASE CopyCommandLineArgumentsToStack
  BY <1>8, Leaves, Unwinding DEF CopyCommandLineArgumentsToStack, KeepsFiles, thread, coverage,
     Unwinds, RunningPlaces, RunPlaces, CopyPlaces
<1>9. CASE EndCopy
  BY <1>9, Leaves, Unwinding DEF EndCopy, KeepsFiles, coverage, Try, Unwinds, RunningPlaces,
     RunPlaces, CopyPlaces
<1>10. CASE CatchArguments
  BY <1>10, Leaves, Unwinding DEF CatchArguments, KeepsFiles, thread, coverage, Unwinds,
     RunningPlaces, RunPlaces
<1>11. CASE BreakOnStart
  BY <1>11, Leaves, Unwinding DEF BreakOnStart, KeepsFiles, coverage, Unwinds, RunningPlaces,
     RunPlaces
<1>12. CASE ShouldInterruptRun
  BY <1>12, Leaves, Unwinding DEF ShouldInterruptRun, KeepsFiles, coverage, Unwinds,
     RunningPlaces, RunPlaces, IsGdbConnectedFails
<1>13. CASE PinkySimStep
  BY <1>13, Leaves, Unwinding DEF PinkySimStep, KeepsFiles, coverage, Unwinds, RunningPlaces,
     RunPlaces
<1>14. CASE EnteringDebugger
  BY <1>14, Leaves, Unwinding DEF EnteringDebugger, KeepsFiles, Stopped, coverage, Unwinds,
     RunningPlaces, RunPlaces
<1>15. CASE BeginPacket
  BY <1>15, Leaves, Unwinding DEF BeginPacket, KeepsFiles, Stopped, coverage, Unwinds,
     RunningPlaces, RunPlaces
<1>16. CASE SendPacketChar
  BY <1>16, Leaves, Unwinding DEF SendPacketChar, KeepsFiles, Stopped, coverage, Unwinds,
     RunningPlaces, EndPlaces, RunPlaces
<1>17. CASE ReceiveFails
  BY <1>17, Leaves, Unwinding DEF ReceiveFails, KeepsFiles, Stopped, coverage, Unwinds,
     RunningPlaces, RunPlaces
<1>18. CASE ReceiveAcknowledge
  BY <1>18, Leaves, Unwinding DEF ReceiveAcknowledge, KeepsFiles, Stopped, coverage, Unwinds,
     RunningPlaces, RunPlaces
<1>19. CASE ReceiveCommand
  BY <1>19, Leaves, Unwinding DEF ReceiveCommand, KeepsFiles, Stopped, coverage, Unwinds,
     RunningPlaces, RunPlaces
<1>20. CASE SkipHardcodedBreakpoint
  BY <1>20, Leaves, Unwinding DEF SkipHardcodedBreakpoint, KeepsFiles, Stopped, coverage,
     Unwinds, RunningPlaces, RunPlaces
<1>21. CASE AdvanceProgramCounter
  BY <1>21, Leaves, Unwinding DEF AdvanceProgramCounter, KeepsFiles, coverage, Unwinds,
     RunningPlaces, RunPlaces
<1>22. QED
  BY <1>1, <1>2, <1>3, <1>4, <1>5, <1>6, <1>7, <1>8, <1>9, <1>10, <1>11, <1>12, <1>13, <1>14,
     <1>15, <1>16, <1>17, <1>18, <1>19, <1>20, <1>21 DEF RunStep

\* What main does with the exit.
LEMMA MainExits ==
    ASSUME ProcessInv, ExitInv, MainStep
    PROVE  ExitInv'
<1>1. CASE RunStep
  <2>1. stop # "exit" /\ summary = NoSummary
    BY <1>1, RunGoes, RunningKnows DEF IsRunning
  <2>2. QED
    BY <1>1, <2>1, RunGoes, RunningRests
<1>2. CASE IsExitSemihost
  <2>1. /\ at = "isExit" /\ at \in RunningPlaces /\ summary' = summary
        /\ exceptions'.code = 0 /\ r0' = r0
    BY <1>2, Leaves DEF IsExitSemihost, RunningPlaces, RunPlaces, KeepsFiles, coverage, semihost, HasShape
  <2>2. stop # "exit" /\ summary = NoSummary
    BY <2>1, RunningKnows DEF IsRunning
  <2>3. CASE Current.kind = "exit"
    BY <1>2, <2>1, <2>2, <2>3 DEF IsExitSemihost, ExitInv, HasExited, IsClear
  <2>4. CASE Current.kind # "exit"
    <3>1. at' = "exception" /\ stop' = stop
      BY <1>2, <2>4 DEF IsExitSemihost
    <3>2. QED
      BY <2>1, <2>2, <3>1, RunningRests DEF RunningPlaces, RunPlaces
  <2>5. QED
    BY <2>3, <2>4
<1>3. CASE EndMain
  <2>1. at = "endMain" /\ IsCovering /\ IsClear /\ CoverageIsComplete
    BY <1>3, CoverageKnows DEF EndMain, DonePlaces
  <2>2. /\ stop' = stop /\ exitCode' = exitCode /\ r0' = r0 /\ commandLine' = commandLine
        /\ elf' = elf /\ walk' = walk /\ summary' = summary
    BY <1>3 DEF EndMain, KeepsFiles, thread, semihost, options, coverage
  <2>3. CoverageIsComplete'
    BY <2>1, <2>2, WalkRests
  <2>4. at' = "uninit"
    BY <1>3, <2>1, CoverageTryEnds DEF EndMain, IsClear
  <2>5. QED
    BY <2>1, <2>2, <2>3, <2>4 DEF ExitInv, IsTold, Succeeds, IsCovering, HasExited
<1>4. CASE CatchMain
  <2>1. at = "catchMain" /\ ~Succeeds
    BY <1>4 DEF CatchMain, ExitInv, RunningPlaces, SourcePlaces, DonePlaces, FailedPlaces, EndPlaces,
       SetupPlaces, RunPlaces, CopyPlaces, BeforePlaces, ParsePlaces, ImagePlaces, LoadPlaces,
       SocketPlaces
  <2>2. /\ stop' = stop /\ commandLine' = commandLine /\ elf' = elf /\ walk' = walk
        /\ summary' = summary /\ exitCode' = -1 /\ at' = "uninit"
    BY <1>4 DEF CatchMain, KeepsFiles, options, coverage
  <2>3. ~Succeeds'
    BY <2>1, <2>2, WalkRests DEF Succeeds
  <2>4. QED
    BY <2>2, <2>3 DEF ExitInv, IsTold
<1>5. CASE UninitMain
  <2>1. at = "uninit" /\ IsTold
    BY <1>5 DEF UninitMain, ExitInv, RunningPlaces, SourcePlaces, DonePlaces, FailedPlaces, EndPlaces,
       SetupPlaces, RunPlaces, CopyPlaces, BeforePlaces, ParsePlaces, ImagePlaces, LoadPlaces,
       SocketPlaces
  <2>2. /\ stop' = stop /\ commandLine' = commandLine /\ elf' = elf /\ walk' = walk
        /\ summary' = summary /\ exitCode' = exitCode /\ r0' = r0 /\ at' = "exited"
    BY <1>5 DEF UninitMain, coverage, thread, semihost
  <2>3. Succeeds' <=> Succeeds
    BY <2>2, WalkRests DEF Succeeds
  <2>4. QED
    BY <2>1, <2>2, <2>3 DEF ExitInv, IsTold
<1>6. QED
  BY <1>1, <1>2, <1>3, <1>4, <1>5 DEF MainStep, RunStep

\* Nothing that the exit is about has changed.
LEMMA ExitRests ==
    ASSUME ExitInv, at' = at, UNCHANGED <<exceptions, options, semihost, coverage, thread>>
    PROVE  ExitInv'
<1>1. /\ exceptions' = exceptions /\ commandLine' = commandLine /\ stop' = stop /\ r0' = r0
      /\ exitCode' = exitCode /\ parse' = parse /\ elf' = elf /\ walk' = walk /\ summary' = summary
  BY DEF options, semihost, coverage, thread
<1>2. /\ IsRunning' = IsRunning /\ HasExited' = HasExited /\ IsCovering' = IsCovering
      /\ Untold' = Untold /\ Unread' = Unread /\ IsClear' = IsClear
  BY <1>1 DEF IsRunning, HasExited, IsCovering, Untold, Unread, IsClear
<1>3. /\ IsParse(parse)' = IsParse(parse) /\ IsTable(elf)' = IsTable(elf)
      /\ (walk.row <= Len(elf))' = (walk.row <= Len(elf))
  BY <1>1 DEF IsParse, IsTable
<1>4. (Walked => Walked') /\ (Walking => Walking') /\ (CoverageIsComplete' <=> CoverageIsComplete)
  BY <1>1, WalkRests
<1>5. (Succeeds' <=> Succeeds) /\ (IsTold => IsTold')
  BY <1>1, <1>4 DEF Succeeds, IsTold
<1>6. QED
  BY <1>1, <1>2, <1>3, <1>4, <1>5 DEF ExitInv

\* The program has not come to its exit at first.
LEMMA ExitInit == Init => ExitInv
BY DEF Init, ExitInv, IsRunning, RunningPlaces, SetupPlaces

\* Every step keeps what is known of it.
LEMMA ExitNext == Inv /\ ExitInv /\ [Next]_vars => ExitInv'
<1> SUFFICES ASSUME Inv, ExitInv, [Next]_vars
             PROVE  ExitInv'
  OBVIOUS
<1>1. ProcessInv
  BY DEF Inv
<1>2. CASE MainStep
  BY <1>1, <1>2, MainExits
<1>3. CASE CommandLineStep /\ UNCHANGED <<socket, semihost, inputs, coverage, thread>>
  <2>1. at \in SetupPlaces /\ at' \in SetupPlaces \cup {"catchMain"}
    BY <1>1, <1>3, CommandLineIsSetup, CommandLineGoes
  <2>2. stop' = stop /\ summary' = summary
    BY <1>3 DEF thread, coverage
  <2>3. QED
    BY <2>1, <2>2, RunningKnows, RunningRests DEF IsRunning, RunningPlaces
<1>4. CASE SemihostStep /\ UNCHANGED <<dump, sources, coverage, thread>>
  <2>1. at \in RunPlaces /\ at' \in RunPlaces \cup {"catchMain"}
    BY <1>1, <1>4, SemihostGoes
  <2>2. stop' = stop /\ summary' = summary
    BY <1>4 DEF thread, coverage
  <2>3. QED
    BY <2>1, <2>2, RunningKnows, RunningRests DEF IsRunning, RunningPlaces
<1>5. CASE CoverageStep /\ UNCHANGED <<socket, semihost, thread>>
  BY <1>1, <1>5, CoverageExits
<1>6. CASE GdbSide
  BY <1>6, ExitRests DEF GdbSide
<1>7. CASE UNCHANGED vars
  BY <1>7, ExitRests DEF vars
<1>8. QED
  BY <1>2, <1>3, <1>4, <1>5, <1>6, <1>7 DEF Next, Process

\* main returns the program's result when the program came to its exit and the
\* coverage that was asked for is complete, and -1 otherwise, whatever codes the
\* calls that failed have left behind; and nothing is thrown that no handler
\* catches.
THEOREM ExitCodeTells == Spec => []ExitCodeIsTrue
<1>1. Inv => at # "killed"
  BY DEF Inv, ProcessInv, Track, OutsidePlaces, BeforePlaces, ParsePlaces, ImagePlaces, LoadPlaces,
         SocketPlaces, RunPlaces, CopyPlaces, RanPlaces, CoverPlaces, CatchPlaces, WalkPlaces,
         WalkedPlaces, ParseElfPlaces, CatchElfPlaces, ElfPlaces, EndPlaces
<1>2. ExitInv => (at = "exited" => IsTold)
  BY DEF ExitInv, RunningPlaces, SourcePlaces, DonePlaces, FailedPlaces, EndPlaces, SetupPlaces,
     RunPlaces, CopyPlaces, BeforePlaces, ParsePlaces, ImagePlaces, LoadPlaces, SocketPlaces
<1>3. Inv /\ ExitInv => ExitCodeIsTrue
  BY <1>1, <1>2 DEF ExitCodeIsTrue, IsTold, Succeeds
<1>4. Init => ExitInv
  BY ExitInit
<1>5. Inv /\ ExitInv /\ [Next]_vars => ExitInv'
  BY ExitNext
<1>6. QED
  BY <1>3, <1>4, <1>5, ProcessIsTracked, PTL DEF Spec

-----------------------------------------------------------------------------
(* The regions and their counters.                                         *)

IsRegion(region) ==
    region = [base |-> region.base, size |-> region.size, readOnly |-> region.readOnly,
              counts |-> region.counts]

AreRegions(list) == IsList(list) /\ \A k \in DOMAIN list : IsRegion(list[k])

\* The blocks are all there, and a region has the last one allocated for it.
Alive(list) ==
    /\ AreRegions(list) /\ IsList(marks) /\ blocks = DOMAIN marks
    /\ \A n \in DOMAIN marks : marks[n] \in DOMAIN list
    /\ \A k \in DOMAIN list :
         /\ list[k].counts # NoBlock => list[k].counts \in DOMAIN marks /\ marks[list[k].counts] = k
         /\ \A n \in DOMAIN marks : marks[n] = k => n <= list[k].counts
         /\ list[k].counts \in Nat

\* The regions are released, with the last block of each.
Freed == regions = << >> /\ blocks = Forgotten

\* While the memory is set up, nothing is released.
BlocksInv ==
    /\ image.size \in Nat
    /\ Alive(regions) \/ Freed
    /\ at \in SetupPlaces => Alive(regions)
    /\ at \in {"main", "commandLine"} => regions = << >>

\* The places of the setup that the memory's invariant names.
LEMMA MainIsSetup == {"main", "commandLine"} \subseteq SetupPlaces /\ "catchMain" \notin SetupPlaces
BY DEF SetupPlaces, BeforePlaces, ParsePlaces, ImagePlaces, LoadPlaces, SocketPlaces

LEMMA ExitIsNoSetup == "exited" \notin SetupPlaces
BY DEF SetupPlaces, BeforePlaces, ParsePlaces, ImagePlaces, LoadPlaces, SocketPlaces

\* One member of a list changes.
LEMMA ChangedList ==
    ASSUME NEW list, IsList(list), NEW other, DOMAIN other = DOMAIN list,
           other = [k \in DOMAIN list |-> other[k]]
    PROVE  IsList(other)
<1>1. DOMAIN list = 1 .. Len(list) /\ Len(list) \in Nat
  BY ListPlaces
<1> DEFINE S == {other[k] : k \in 1 .. Len(list)}
<1>2. other \in Seq(S)
  BY <1>1
<1>3. QED
  BY <1>2 DEF IsList

\* Two members behind a list.
LEMMA ListOfTwo ==
    ASSUME NEW list, IsList(list), NEW one, NEW other
    PROVE  list \o <<one, other>> = Append(Append(list, one), other)
<1>1. PICK S : list \in Seq(S)
  BY DEF IsList
<1> DEFINE T == S \cup {one, other}
<1>2. list \in Seq(T) /\ one \in T /\ other \in T
  BY <1>1
<1> HIDE DEF T
<1>3. QED
  BY <1>2

\* No region, no block.
LEMMA NothingAlive ==
    ASSUME Alive(regions), regions = << >>
    PROVE  Freed
<1>1. DOMAIN marks = {}
  BY DEF Alive
<1>2. QED
  BY <1>1 DEF Alive, Freed, Forgotten

\* A region that is new has no block yet.
LEMMA AliveAppended ==
    ASSUME NEW list, Alive(list), NEW region, IsRegion(region), region.counts = NoBlock
    PROVE  /\ Alive(Append(list, region))
           /\ DOMAIN Append(list, region) = 1 .. Len(list) + 1
           /\ Append(list, region)[Len(list) + 1] = region
<1> DEFINE longer == Append(list, region)
<1>1. IsList(list) /\ DOMAIN list = 1 .. Len(list) /\ Len(list) \in Nat
  BY ListPlaces DEF Alive, AreRegions
<1>2. /\ IsList(longer) /\ DOMAIN longer = 1 .. Len(list) + 1
      /\ \A k \in 1 .. Len(list) : longer[k] = list[k]
      /\ longer[Len(list) + 1] = region
  BY <1>1, AppendedList
<1> HIDE DEF longer
<1>3. AreRegions(longer)
  BY <1>1, <1>2 DEF Alive, AreRegions
<1>4. \A n \in DOMAIN marks : marks[n] \in DOMAIN list /\ marks[n] \in DOMAIN longer
  BY <1>1, <1>2 DEF Alive
<1>5. ASSUME NEW k \in DOMAIN longer
      PROVE  /\ longer[k].counts # NoBlock =>
                  longer[k].counts \in DOMAIN marks /\ marks[longer[k].counts] = k
             /\ \A n \in DOMAIN marks : marks[n] = k => n <= longer[k].counts
             /\ longer[k].counts \in Nat
  <2>1. CASE k \in DOMAIN list
    BY <1>1, <1>2, <2>1 DEF Alive
  <2>2. CASE k = Len(list) + 1
    <3>1. k \notin DOMAIN list
      BY <1>1, <2>2
    <3>2. QED
      BY <1>2, <1>4, <2>2, <3>1 DEF NoBlock
  <2>3. QED
    BY <1>1, <1>2, <2>1, <2>2
<1>6. Alive(longer)
  BY <1>3, <1>4, <1>5 DEF Alive
<1>7. QED
  BY <1>2, <1>6 DEF longer

\* The first region that holds an address is one of those there are.
LEMMA FirstIs ==
    ASSUME NEW list, IsList(list), NEW address, NEW size, Holding(list, address, size) # {}
    PROVE  FirstHolding(list, address, size) \in DOMAIN list
<1> DEFINE S == Holding(list, address, size)
<1>1. S \subseteq DOMAIN list
  BY DEF Holding
<1>2. S \subseteq Nat /\ S # {}
  BY <1>1, ListPlaces
<1> HIDE DEF S
<1>3. \E m \in S : \A other \in S : m <= other
  BY <1>2, HasLowest
<1>4. (CHOOSE m \in S : \A other \in S : m <= other) \in S
  BY <1>3
<1>5. QED
  BY <1>1, <1>4 DEF FirstHolding, S

\* A region that is marked read-only keeps its block.
LEMMA AliveMarked ==
    ASSUME NEW list, Alive(list), NEW base, Holding(list, base, 1) # {}
    PROVE  Alive(MarkedReadOnly(list, base))
<1> DEFINE f == FirstHolding(list, base, 1)
           marked == [list EXCEPT ![f].readOnly = TRUE]
<1>1. f \in DOMAIN list
  BY FirstIs DEF Alive, AreRegions
<1>2. MarkedReadOnly(list, base) = marked
  BY DEF MarkedReadOnly
<1> HIDE DEF f
<1>3. IsList(marked)
  BY <1>1, ChangedList DEF Alive, AreRegions
<1>4. DOMAIN marked = DOMAIN list
  OBVIOUS
<1>5. ASSUME NEW k \in DOMAIN list
      PROVE  IsRegion(marked[k]) /\ marked[k].counts = list[k].counts
  <2>1. IsRegion(list[k])
    BY DEF Alive, AreRegions
  <2>2. marked[k] = IF k = f THEN [list[k] EXCEPT !.readOnly = TRUE] ELSE list[k]
    OBVIOUS
  <2>3. QED
    BY <2>1, <2>2 DEF IsRegion
<1> HIDE DEF marked
<1>6. QED
  BY <1>2, <1>3, <1>4, <1>5 DEF Alive, AreRegions

\* A region that is made read-only has the block that is allocated for it.
LEMMA AliveMadeReadOnly ==
    ASSUME NEW list, Alive(list), NEW base, Holding(list, base, 1) # {}, MakesReadOnly(list, base)
    PROVE  Alive(regions)'
<1> DEFINE f == FirstHolding(list, base, 1)
           m == MarkedReadOnly(list, base)
<1>1. f \in DOMAIN list /\ DOMAIN list = 1 .. Len(list) /\ Len(list) \in Nat
  BY FirstIs, ListPlaces DEF Alive, AreRegions
<1>2. Alive(m)
  BY AliveMarked
<1>3. DOMAIN m = DOMAIN list
  BY DEF MarkedReadOnly
<1>4. /\ regions' = [m EXCEPT ![f].counts = Len(marks) + 1]
      /\ blocks' = blocks \cup {Len(marks) + 1} /\ marks' = Append(marks, f)
  BY DEF MakesReadOnly, WithReadCounts, NextBlock
<1> HIDE DEF m, f
<1>5. IsList(marks) /\ DOMAIN marks = 1 .. Len(marks) /\ Len(marks) \in Nat
  BY ListPlaces DEF Alive
<1>6. /\ IsList(marks') /\ DOMAIN marks' = 1 .. Len(marks) + 1
      /\ \A n \in 1 .. Len(marks) : marks'[n] = marks[n]
      /\ marks'[Len(marks) + 1] = f
  BY <1>4, <1>5, AppendedList
<1>7. IsList(regions')
  BY <1>1, <1>2, <1>3, <1>4, ChangedList DEF Alive, AreRegions
<1>8. DOMAIN regions' = DOMAIN list
  BY <1>3, <1>4
<1>9. ASSUME NEW k \in DOMAIN list
      PROVE  /\ IsRegion(regions'[k])
             /\ regions'[k].counts = IF k = f THEN Len(marks) + 1 ELSE m[k].counts
  <2>1. IsRegion(m[k])
    BY <1>2, <1>3 DEF Alive, AreRegions
  <2>2. regions'[k] = IF k = f THEN [m[k] EXCEPT !.counts = Len(marks) + 1] ELSE m[k]
    BY <1>3, <1>4
  <2>3. QED
    BY <2>1, <2>2 DEF IsRegion
<1>10. blocks' = DOMAIN marks'
  BY <1>2, <1>4, <1>5, <1>6 DEF Alive
<1>11. \A n \in DOMAIN marks' : marks'[n] \in DOMAIN regions'
  BY <1>1, <1>2, <1>3, <1>5, <1>6, <1>8 DEF Alive
<1>12. ASSUME NEW k \in DOMAIN regions'
       PROVE  /\ regions'[k].counts # NoBlock =>
                   regions'[k].counts \in DOMAIN marks' /\ marks'[regions'[k].counts] = k
              /\ \A n \in DOMAIN marks' : marks'[n] = k => n <= regions'[k].counts
              /\ regions'[k].counts \in Nat
  <2>1. CASE k = f
    BY <1>5, <1>6, <1>8, <1>9, <2>1
  <2>2. CASE k # f
    <3>1. /\ m[k].counts # NoBlock => m[k].counts \in DOMAIN marks /\ marks[m[k].counts] = k
          /\ \A n \in DOMAIN marks : marks[n] = k => n <= m[k].counts
          /\ m[k].counts \in Nat
      BY <1>2, <1>3, <1>8 DEF Alive
    <3>2. regions'[k].counts = m[k].counts
      BY <1>8, <1>9, <2>2
    <3>3. QED
      BY <1>5, <1>6, <2>2, <3>1, <3>2
  <2>3. QED
    BY <2>1, <2>2
<1>13. AreRegions(regions')
  BY <1>7, <1>8, <1>9 DEF AreRegions
<1>14. QED
  BY <1>6, <1>10, <1>11, <1>12, <1>13 DEF Alive

\* What is released of the regions is the last block of each.
LEMMA ReleasedIsFreed ==
    ASSUME Alive(regions) \/ Freed, ReleaseRegions
    PROVE  Freed'
<1> DEFINE last == {regions[k].counts : k \in DOMAIN regions}
<1>1. regions' = << >> /\ blocks' = blocks \ last /\ marks' = marks
  BY DEF ReleaseRegions
<1>2. Forgotten' = Forgotten
  BY <1>1 DEF Forgotten
<1>3. CASE Freed
  <2>1. last = {}
    BY <1>3 DEF Freed
  <2>2. QED
    BY <1>1, <1>2, <1>3, <2>1 DEF Freed
<1>4. CASE Alive(regions)
  <2>1. DOMAIN marks = 1 .. Len(marks) /\ Len(marks) \in Nat
    BY <1>4, ListPlaces DEF Alive
  <2>2. ASSUME NEW n \in DOMAIN marks
        PROVE  n \in last <=> n \notin Forgotten
    <3> DEFINE k == marks[n]
    <3>1. k \in DOMAIN regions /\ n <= regions[k].counts /\ regions[k].counts \in Nat
      BY <1>4 DEF Alive
    <3>2. regions[k].counts \in DOMAIN marks /\ marks[regions[k].counts] = k
      BY <1>4, <2>1, <3>1 DEF Alive, NoBlock
    <3>3. ASSUME n \in last
          PROVE  n \notin Forgotten
      <4>1. PICK j \in DOMAIN regions : n = regions[j].counts
        BY <3>3
      <4>2. n # NoBlock
        BY <2>1 DEF NoBlock
      <4>3. marks[n] = j /\ \A later \in DOMAIN marks : marks[later] = j => later <= n
        BY <1>4, <4>1, <4>2 DEF Alive
      <4>4. QED
        BY <2>1, <4>3 DEF Forgotten
    <3>4. ASSUME n \notin last
          PROVE  n \in Forgotten
      <4>1. n # regions[k].counts
        BY <3>1, <3>4
      <4>2. regions[k].counts \in n + 1 .. Len(marks)
        BY <2>1, <3>1, <3>2, <4>1
      <4>3. QED
        BY <3>2, <4>2 DEF Forgotten
    <3>5. QED
      BY <3>3, <3>4
  <2>3. blocks = DOMAIN marks /\ Forgotten \subseteq DOMAIN marks
    BY <1>4 DEF Alive, Forgotten
  <2> HIDE DEF last
  <2>4. blocks' = Forgotten
    BY <1>1, <2>2, <2>3
  <2>5. QED
    BY <1>1, <1>2, <2>4 DEF Freed
<1>5. QED
  BY <1>3, <1>4

\* Nothing happens to the memory.
LEMMA BlocksRest ==
    ASSUME BlocksInv, image' = image, UNCHANGED memory, at' \in SetupPlaces => at \in SetupPlaces,
           at' \in {"main", "commandLine"} => at \in {"main", "commandLine"}
    PROVE  BlocksInv'
<1>1. regions' = regions /\ blocks' = blocks /\ marks' = marks
  BY DEF memory
<1>2. Alive(regions)' = Alive(regions) /\ Freed' = Freed
  BY <1>1 DEF Alive, Freed, Forgotten, AreRegions, IsRegion
<1>3. QED
  BY <1>1, <1>2 DEF BlocksInv

\* A region option, with its region's read counts and without.
LEMMA RegionOptionBlocks ==
    ASSUME Alive(regions), NEW text, NEW readOnly \in BOOLEAN, ParseRegionOption(text, readOnly)
    PROVE  Alive(regions)' /\ image' = image
<1> DEFINE base == Argument(2).value
           created == Append(regions, Region(base, Argument(3).value))
           isHeld == Holding(created, base, 1) # {}
           Stays == UNCHANGED <<image, blocks, marks>>
<1>1. Alive(created)
  BY AliveAppended DEF Region, IsRegion
<1>2. \/ regions' = regions /\ Stays
      \/ regions' = created /\ Stays
      \/ isHeld /\ regions' = MarkedReadOnly(created, base) /\ Stays
      \/ isHeld /\ MakesReadOnly(created, base) /\ image' = image
  BY DEF ParseRegionOption, Uses
<1> HIDE DEF created
<1>3. ASSUME NEW list, Alive(list), regions' = list, Stays
      PROVE  Alive(regions)'
  BY <1>3 DEF Alive, AreRegions, IsRegion
<1>4. isHeld => Alive(MarkedReadOnly(created, base))
  BY <1>1, AliveMarked
<1>5. isHeld /\ MakesReadOnly(created, base) => Alive(regions)'
  BY <1>1, AliveMadeReadOnly
<1>6. QED
  BY <1>1, <1>2, <1>3, <1>4, <1>5

\* The regions of an image.
LEMMA FlashImageBlocks ==
    ASSUME Alive(regions), image.size \in Nat, CreateRegionsFromFlashImage
    PROVE  Alive(regions)' /\ image' = image
<1> DEFINE ramSize == image.sp % RamPage
           flash   == Region(0, image.size)
           ram     == Region(image.sp - ramSize, ramSize)
           one     == Append(regions, flash)
           created == regions \o <<flash, ram>>
<1>1. /\ image' = image
      /\ UNCHANGED memory \/ (image.size >= 4 /\ MakesReadOnly(created, 0))
  BY DEF CreateRegionsFromFlashImage
<1>2. CASE UNCHANGED memory
  BY <1>1, <1>2 DEF memory, Alive, AreRegions, IsRegion
<1>3. CASE image.size >= 4 /\ MakesReadOnly(created, 0)
  <2>1. created = Append(one, ram)
    BY ListOfTwo DEF Alive, AreRegions
  <2>2. IsRegion(flash) /\ IsRegion(ram) /\ flash.counts = NoBlock /\ ram.counts = NoBlock
    BY DEF Region, IsRegion
  <2>3. Alive(one) /\ DOMAIN one = 1 .. Len(regions) + 1 /\ one[Len(regions) + 1] = flash
    BY <2>2, AliveAppended
  <2>4. Len(regions) \in Nat /\ Len(one) = Len(regions) + 1
    BY <2>3, ListPlaces DEF Alive, AreRegions
  <2> HIDE DEF one, flash, ram
  <2>5. /\ Alive(Append(one, ram)) /\ DOMAIN Append(one, ram) = 1 .. Len(one) + 1
        /\ \A k \in 1 .. Len(one) : Append(one, ram)[k] = one[k]
    BY <2>2, <2>3, AliveAppended, AppendedList DEF Alive, AreRegions
  <2>6. Len(regions) + 1 \in Holding(created, 0, 1)
    <3>1. Holds(flash, 0, 1)
      BY <1>3 DEF flash, Region, Holds
    <3>2. QED
      BY <2>1, <2>3, <2>4, <2>5, <3>1 DEF Holding
  <2>7. Alive(created)
    BY <2>1, <2>5
  <2> HIDE DEF created
  <2>8. Alive(regions)'
    BY <1>3, <2>6, <2>7, AliveMadeReadOnly
  <2>9. QED
    BY <1>1, <2>8
<1>4. QED
  BY <1>1, <1>2, <1>3

\* Parsing the command line and loading the image.
LEMMA CommandLineBlocks ==
    ASSUME ProcessInv, BlocksInv, CommandLineStep
    PROVE  BlocksInv'
<1>1. /\ at \in SetupPlaces /\ Alive(regions)
      /\ at' \in (SetupPlaces \ {"main", "commandLine"}) \cup {"catchMain"}
  BY CommandLineIsSetup, CommandLineGoes DEF BlocksInv
<1>2. ASSUME image' = image, UNCHANGED memory
      PROVE  BlocksInv'
  BY <1>1, <1>2, BlocksRest, MainIsSetup
<1>3. ASSUME image' = image, Alive(regions)'
      PROVE  BlocksInv'
  BY <1>1, <1>3, MainIsSetup DEF BlocksInv
<1>4. CASE BeginCommandLine
  <2>1. regions = << >> /\ regions' = regions /\ blocks' = blocks /\ marks' = marks /\ image' = image
    BY <1>4 DEF BeginCommandLine, BlocksInv
  <2>2. QED
    BY <1>2, <2>1 DEF memory
<1>5. CASE ParseFlashOption
  BY <1>1, <1>3, <1>5, RegionOptionBlocks DEF ParseFlashOption
<1>6. CASE ParseRamOption
  BY <1>1, <1>3, <1>6, RegionOptionBlocks DEF ParseRamOption
<1>7. CASE CreateRegionsFromFlashImage
  BY <1>1, <1>3, <1>7, FlashImageBlocks DEF BlocksInv
<1>8. CASE CatchCommandLine
  <2>1. image' = image /\ ReleaseRegions /\ at = "catchCommandLine"
    BY <1>8 DEF CatchCommandLine
  <2>2. at' = "catchMain"
    BY <1>8, Leaves, Unwinding DEF CatchCommandLine, BeforePlaces, Unwinds
  <2>3. Freed'
    BY <1>1, <2>1, ReleasedIsFreed
  <2>4. QED
    BY <2>1, <2>2, <2>3, MainIsSetup DEF BlocksInv
<1>9. CASE ParseBreakOnStartOption \/ ParseGdbPortOption \/ ParseCodeCovOption
            \/ ParseRestrictOption \/ RefuseArgument \/ ParseFilenameArgument
  <2>1. image' = image /\ UNCHANGED memory
    BY <1>9 DEF ParseBreakOnStartOption, ParseGdbPortOption, ParseCodeCovOption,
       ParseRestrictOption, RefuseArgument, ParseFilenameArgument, Uses, options
  <2>2. QED
    BY <1>2, <2>1
<1>10. CASE CheckRequiredArguments \/ OpenImage \/ SizeImage \/ AllocateImage \/ ReadImage
            \/ LoadFromFlashImage \/ ReleaseImage \/ CatchLoadImage \/ EndCommandLine
  <2>1. UNCHANGED options
    BY <1>10 DEF CheckRequiredArguments, OpenImage, SizeImage, AllocateImage, ReadImage,
       LoadFromFlashImage, ReleaseImage, CatchLoadImage, EndCommandLine
  <2>2. QED
    BY <1>2, <2>1 DEF options
<1>11. QED
  BY <1>4, <1>5, <1>6, <1>7, <1>8, <1>9, <1>10 DEF CommandLineStep

\* main releases the memory at its end, and leaves it alone before.
LEMMA MainBlocks ==
    ASSUME ProcessInv, BlocksInv, MainStep
    PROVE  BlocksInv'
<1>1. /\ at' \in SetupPlaces => at \in SetupPlaces
      /\ at' \in {"main", "commandLine"} => BeginMain
  BY MainFlow
<1>2. BeginMain => at = "main"
  BY DEF BeginMain
<1>3. CASE UNCHANGED options
  BY <1>1, <1>2, <1>3, BlocksRest DEF options
<1>4. CASE UninitMain
  <2>1. image' = image /\ ReleaseRegions /\ at' = "exited"
    BY <1>4 DEF UninitMain, UninitCommandLine
  <2>2. Freed'
    BY <2>1, ReleasedIsFreed DEF BlocksInv
  <2>3. QED
    BY <2>1, <2>2, ExitIsNoSetup DEF BlocksInv
<1>5. UNCHANGED options \/ UninitMain
  BY DEF MainStep, BeginMain, SocketCommInit, CreateSocket, BindAndListen, EndSocketInit,
     CatchSocket, Mri4SimInit, CopyCommandLineArgumentsToStack, EndCopy, CatchArguments,
     BreakOnStart, ShouldInterruptRun, PinkySimStep, IsExitSemihost, EnteringDebugger,
     BeginPacket, SendPacketChar, ReceiveFails, ReceiveAcknowledge, ReceiveCommand,
     SkipHardcodedBreakpoint, AdvanceProgramCounter, EndMain, CatchMain, KeepsFiles
<1>6. QED
  BY <1>3, <1>4, <1>5

\* At first there is no memory.
LEMMA BlocksInit == Init => BlocksInv
<1> SUFFICES ASSUME Init
             PROVE  BlocksInv
  OBVIOUS
<1>1. PICK s \in Sessions : image = s.image
  BY DEF Init
<1>2. image.size \in Nat
  BY <1>1, SessionsAssumption
<1>3. regions = << >> /\ blocks = {} /\ marks = << >>
  BY DEF Init
<1>4. IsList(regions) /\ IsList(marks)
  BY <1>3, EmptySeq DEF IsList
<1>5. Alive(regions)
  BY <1>3, <1>4 DEF Alive, AreRegions
<1>6. QED
  BY <1>2, <1>3, <1>5 DEF BlocksInv

\* Every step keeps a region with the last block allocated for it.
LEMMA BlocksNext == Inv /\ BlocksInv /\ [Next]_vars => BlocksInv'
<1> SUFFICES ASSUME Inv, BlocksInv, [Next]_vars
             PROVE  BlocksInv'
  OBVIOUS
<1>1. ProcessInv
  BY DEF Inv
<1>2. CASE MainStep
  BY <1>1, <1>2, MainBlocks
<1>3. CASE CommandLineStep
  BY <1>1, <1>3, CommandLineBlocks
<1>4. CASE SemihostStep
  <2>1. UNCHANGED options
    BY <1>4 DEF SemihostStep, HandleWriteRequest, WriteToConsole, HandleReadRequest, ReadFromFile,
       HandleOpenRequest, HandleUnlinkRequest, HandleRenameRequest, HandleFStatRequest,
       HandleStatRequest, HandleLSeekRequest, HandleCloseRequest, HostAnswers, HostAnswersAtOnce,
       AsksGdb
  <2>2. at' \notin SetupPlaces
    BY <1>1, <1>4, SemihostFlow
  <2>3. QED
    BY <2>1, <2>2, BlocksRest, MainIsSetup DEF options
<1>5. CASE CoverageStep /\ UNCHANGED <<semihost, thread>>
  <2>1. UNCHANGED options
    BY <1>5, CoverageKeeps
  <2>2. at' \notin SetupPlaces
    BY <1>1, <1>5, CoverageFlow
  <2>3. QED
    BY <2>1, <2>2, BlocksRest, MainIsSetup DEF options
<1>6. CASE GdbSide
  BY <1>6, BlocksRest DEF GdbSide, options
<1>7. CASE UNCHANGED vars
  BY <1>7, BlocksRest DEF vars, options
<1>8. QED
  BY <1>2, <1>3, <1>4, <1>5, <1>6, <1>7 DEF Next, Process

\* At the exit, everything is freed and closed but the sockets that main lost,
\* and the counters that a region had when it was made read-only once more.
THEOREM NothingIsLeaked == Spec => []NothingLeaks
<1>1. Inv /\ BlocksInv => NothingLeaks
  <2> SUFFICES ASSUME Inv, BlocksInv
               PROVE  NothingLeaks
    OBVIOUS
  <2>1. descriptors = KnownSockets
    BY DEF Inv, SocketsInv, Descriptors
  <2>2. at = "exited" => held = {} /\ regions = << >> /\ IsClosed
    BY DEF Inv, ProcessInv, Track, OutsidePlaces, BeforePlaces, ParsePlaces, ImagePlaces, LoadPlaces,
           SocketPlaces, RunPlaces, CopyPlaces, RanPlaces, CoverPlaces, CatchPlaces, WalkPlaces,
           WalkedPlaces, ParseElfPlaces, CatchElfPlaces, ElfPlaces, EndPlaces
  <2>3. IsClosed => (pComm # "lost" => descriptors = {})
    BY <2>1 DEF IsClosed, KnownSockets
  <2>4. regions = << >> => blocks = Forgotten
    BY NothingAlive DEF BlocksInv, Freed
  <2>5. QED
    BY <2>1, <2>2, <2>3, <2>4 DEF NothingLeaks
<1>2. Init => BlocksInv
  BY BlocksInit
<1>3. Inv /\ BlocksInv /\ [Next]_vars => BlocksInv'
  BY BlocksNext
<1>4. QED
  BY <1>1, <1>2, <1>3, ProcessIsTracked, PTL DEF Spec
=============================================================================
