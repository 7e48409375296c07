------------------------ MODULE PinkySimCommandLine ------------------------
(***************************************************************************)
(* pinkySimCommandLine.c: the arguments are parsed one after the other,    *)
(* build the regions of the memory as they come, and end at the name of    *)
(* the image, which is loaded into them.  An argument is its text, what    *)
(* strtoul makes of it, and the bytes it takes.                            *)
(***************************************************************************)
EXTENDS ProcessMemory

CONSTANTS
    RamPage,            \* the RAM of an image begins at a multiple of it
    MaxPort             \* 0xFFFF in the code

ASSUME CommandLineAssumption == RamPage \in Nat \ {0} /\ MaxPort \in Nat

VARIABLES
    args,               \* argv without the program's name
    image,              \* the image file: its size and its first word, the initial SP
    index,              \* how many arguments have been used
    commandLine         \* pinkySimCommandLine

options == <<args, image, index, commandLine, memory>>

Remaining == Len(args) - index
Argument(k) == args[index + k]
HasDoubleDash(argument) == argument.text \in {"--flash", "--ram", "--breakOnStart", "--gdbPort",
                                              "--codecov", "--restrict", "--other"}

Blank0 ==
    [manual |-> FALSE, breakOnStart |-> FALSE, gdbPort |-> 3333, coverageElf |-> "",
     restrict |-> << >>, imageFilename |-> "", argIndexOfImage |-> 0]

-----------------------------------------------------------------------------
BeginCommandLine ==
    /\ At("commandLine") /\ Try("catchCommandLine", "parse")
    /\ commandLine' = Blank0 /\ index' = 0 /\ regions' = << >>
    /\ UNCHANGED <<args, image, blocks, marks, held, failures>>

\* The next argument is a flag with parameters behind it.
Flag(text, parameters) ==
    /\ At("parse") /\ Remaining > 0 /\ Argument(1).text = text
    /\ Remaining - 1 >= parameters

Uses(count) == index' = index + count /\ Goes("parse") /\ UNCHANGED <<args, image>>

\* The region is there when its read counts cannot be allocated, or when it is
\* so small that it holds no address.
ParseRegionOption(text, readOnly) ==
    LET base    == Argument(2).value
        size    == Argument(3).value
        created == Append(regions, Region(base, size))
        isHeld  == Holding(created, base, 1) # {}
        refused(list) == regions' = list /\ UNCHANGED <<args, image, index, commandLine, blocks, marks>>
    IN  /\ Flag(text, 2) /\ UNCHANGED held
        /\ \/ /\ Fails /\ Throw(outOfMemoryException)
              /\ refused(regions) \/ (readOnly /\ isHeld /\ refused(MarkedReadOnly(created, base)))
           \/ readOnly /\ ~isHeld /\ Works /\ Throw(busErrorException) /\ refused(created)
           \/ /\ readOnly => isHeld
              /\ Works /\ Uses(3) /\ commandLine' = [commandLine EXCEPT !.manual = TRUE]
              /\ IF readOnly THEN MakesReadOnly(created, base)
                 ELSE regions' = created /\ UNCHANGED <<blocks, marks>>

ParseFlashOption == ParseRegionOption("--flash", TRUE)
ParseRamOption   == ParseRegionOption("--ram", FALSE)

ParseBreakOnStartOption ==
    /\ Flag("--breakOnStart", 0) /\ Works /\ Uses(1)
    /\ commandLine' = [commandLine EXCEPT !.breakOnStart = TRUE]
    /\ UNCHANGED <<memory, held>>

ParseGdbPortOption ==
    /\ Flag("--gdbPort", 1) /\ Argument(2).value <= MaxPort /\ Works /\ Uses(2)
    /\ commandLine' = [commandLine EXCEPT !.gdbPort = Argument(2).value]
    /\ UNCHANGED <<memory, held>>

ParseCodeCovOption ==
    /\ Flag("--codecov", 2) /\ Works /\ Uses(3)
    /\ commandLine' = [commandLine EXCEPT !.coverageElf = Argument(2).text]
    /\ UNCHANGED <<memory, held>>

\* The list of paths keeps its former length when it cannot grow.
ParseRestrictOption ==
    /\ Flag("--restrict", 1)
    /\ \/ /\ Works /\ Uses(2) /\ held' = held \cup {"restrictPaths"} /\ UNCHANGED memory
          /\ commandLine' = [commandLine EXCEPT !.restrict = Append(@, Argument(2).text)]
       \/ Fails /\ Throw(outOfMemoryException) /\ UNCHANGED <<options, held>>

\* Too few parameters, a port that is too high, or no such option.
Parameters == [text \in {"--flash", "--ram", "--codecov"} |-> 2]

RefuseArgument ==
    /\ At("parse") /\ Remaining > 0 /\ HasDoubleDash(Argument(1))
    /\ LET text == Argument(1).text
       IN  \/ text = "--other"
           \/ text \in DOMAIN Parameters /\ Remaining - 1 < Parameters[text]
           \/ text \in {"--gdbPort", "--restrict"} /\ Remaining - 1 < 1
           \/ text = "--gdbPort" /\ Remaining - 1 >= 1 /\ Argument(2).value > MaxPort
    /\ Throw(invalidArgumentException) /\ UNCHANGED <<options, held, failures>>

\* The first argument that is no option is the image; the program gets the rest.
ParseFilenameArgument ==
    /\ At("parse") /\ Remaining > 0 /\ ~HasDoubleDash(Argument(1))
    /\ Works /\ Uses(Remaining)
    /\ commandLine' = [commandLine EXCEPT !.imageFilename = Argument(1).text,
                                          !.argIndexOfImage = index]
    /\ UNCHANGED <<memory, held>>

CheckRequiredArguments ==
    /\ At("parse") /\ Remaining = 0
    /\ IF commandLine.imageFilename = "" THEN Throw(invalidArgumentException)
       ELSE Try("catchLoadImage", "openImage")
    /\ UNCHANGED <<options, held, failures>>

-----------------------------------------------------------------------------
\* loadImageFile
OpenImage ==
    At("openImage") /\ Acquire("imageFile", fileException, "sizeImage") /\ UNCHANGED options

SizeImage ==
    /\ At("sizeImage") /\ ((Works /\ Goes("allocateImage")) \/ (Fails /\ Throw(fileException)))
    /\ UNCHANGED <<options, held>>

AllocateImage ==
    At("allocateImage") /\ Acquire("imageBuffer", outOfMemoryException, "readImage") /\ UNCHANGED options

ReadImage ==
    /\ At("readImage") /\ ((Works /\ Goes("loadImage")) \/ (Fails /\ Throw(fileException)))
    /\ UNCHANGED <<options, held>>

\* A word at a time while more than a word is left, then bytes.
Units(size) ==
    LET words == IF size > 4 THEN (size - 1) \div 4 ELSE 0
    IN  {<<4 * k, 4>> : k \in 0 .. words - 1} \cup {<<a, 1>> : a \in 4 * words .. size - 1}

LoadFromFlashImage ==
    /\ At("loadImage") /\ commandLine.manual /\ UNCHANGED <<options, held, failures>>
    /\ IF \A unit \in Units(image.size) : IsMapped(unit[1], unit[2]) THEN Goes("releaseImage")
       ELSE Throw(busErrorException)

\* The flash holds the image, and the RAM what is below the initial SP.  When
\* the second region cannot be created, the first one is given back.
CreateRegionsFromFlashImage ==
    LET ramSize == image.sp % RamPage
        created == regions \o <<Region(0, image.size), Region(image.sp - ramSize, ramSize)>>
    IN  /\ At("loadImage") /\ ~commandLine.manual /\ UNCHANGED <<args, image, index, commandLine, held>>
        /\ \/ /\ image.size < 4 /\ Works /\ Throw(bufferOverrunException) /\ UNCHANGED memory
           \/ image.size >= 4 /\ Fails /\ Throw(outOfMemoryException) /\ UNCHANGED memory
           \/ image.size >= 4 /\ Works /\ Goes("releaseImage") /\ MakesReadOnly(created, 0)

ReleaseImage ==
    /\ At("releaseImage") /\ Release({"imageBuffer", "imageFile"}) /\ EndTry("parsed")
    /\ UNCHANGED <<options, failures>>

\* Mutated form of CatchLoadImage: the file stays open.
CatchLoadImage_FileOpen ==
    /\ At("catchLoadImage") /\ Release({"imageBuffer"}) /\ Rethrow
    /\ UNCHANGED <<options, failures>>

CatchLoadImage ==
    /\ At("catchLoadImage") /\ Release({"imageBuffer", "imageFile"}) /\ Rethrow
    /\ UNCHANGED <<options, failures>>

EndCommandLine == At("parsed") /\ EndTry("listen") /\ UNCHANGED <<options, held, failures>>

\* The memory is released and forgotten; the list of paths is still there.
CatchCommandLine ==
    /\ At("catchCommandLine") /\ ReleaseRegions /\ Rethrow
    /\ UNCHANGED <<args, image, index, commandLine, held, failures>>

\* pinkySimCommandLine_Uninit
UninitCommandLine == ReleaseRegions /\ Release({"restrictPaths"})

CommandLineStep ==
    \/ BeginCommandLine \/ ParseFlashOption \/ ParseRamOption \/ ParseBreakOnStartOption
    \/ ParseGdbPortOption \/ ParseCodeCovOption \/ ParseRestrictOption \/ RefuseArgument
    \/ ParseFilenameArgument \/ CheckRequiredArguments \/ OpenImage \/ SizeImage \/ AllocateImage
    \/ ReadImage \/ LoadFromFlashImage \/ CreateRegionsFromFlashImage \/ ReleaseImage
    \/ CatchLoadImage \/ EndCommandLine \/ CatchCommandLine
=============================================================================
