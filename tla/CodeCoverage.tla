---------------------------- MODULE CodeCoverage ----------------------------
(***************************************************************************)
(* CodeCoverage.c: when the program has ended, the lines of its sources    *)
(* are walked along the rows that ElfLines.c keeps of readelf's dump, and  *)
(* each line is written out with the number of reads of the flash at its   *)
(* rows, the lowest one if it has several.  The source files, the pipe     *)
(* from readelf and the output directory are the host's.                   *)
(***************************************************************************)
EXTENDS PinkySimCommandLine, ElfLines, FiniteSetsExt

CONSTANTS
    Files,              \* the names of source files in strcmp's order
    BaseName,           \* of a file, what follows its last slash
    Under               \* of a file, the path that it begins with

ASSUME FilesAssumption ==
    /\ Files \in Seq(STRING \ {""})
    /\ BaseName \in [Range(Files) -> STRING] /\ Under \in [Range(Files) -> STRING]

VARIABLES
    dump,               \* what readelf will say
    sources,            \* the number of lines of each source file
    parse,              \* ParseState and what it has kept
    elf,                \* data.pLines: the sorted rows, or NoLines
    walk,               \* PrivateData's counters
    outputs,            \* the .cov files by name: a mark for every line
    summary             \* what summary.txt says: a file, its lines and how many were executed

inputs   == <<dump, sources, reads>>
coverage == <<parse, elf, walk, outputs, summary>>

\* A null pointer, which is no table of rows.
NoLines == [none \in {0} |-> Heading]
NoSummary == << <<"", 0, 0>> >>
NotExecutable == -1     \* the mark of a line that no row is about

AtStart == [row |-> 1, file |-> "", line |-> 1, executable |-> 0, executed |-> 0]

\* The places of CodeCoverage_Run; nothing else changes there.
Covers(place) == At(place) /\ UNCHANGED <<options, inputs>>
Keeps == UNCHANGED coverage

RunCodeCoverageIfRequested ==
    /\ Covers("ran") /\ Keeps /\ UNCHANGED <<held, failures>>
    /\ IF commandLine.coverageElf = "" THEN EndTry("uninit") ELSE Try("catchCoverage", "codeCoverageRun")

CodeCoverageRun ==
    /\ Covers("codeCoverageRun") /\ Keeps /\ UNCHANGED <<held, failures>>
    /\ Try("catchRun", "initPrivateData")

InitPrivateData ==
    /\ Covers("initPrivateData") /\ Acquire("outputFilename", outOfMemoryException, "parseElf")
    /\ elf' = NoLines /\ walk' = AtStart /\ UNCHANGED <<parse, outputs, summary>>

ParseElf ==
    /\ Covers("parseElf") /\ Keeps /\ UNCHANGED <<held, failures>>
    /\ Try("catchParse", "elfLinesParse")

-----------------------------------------------------------------------------
(* ElfLines_Parse: its catch swallows what was thrown, and returns NULL.   *)

ElfLinesParse ==
    /\ Covers("elfLinesParse") /\ Keeps /\ UNCHANGED <<held, failures>>
    /\ Try("catchElfLines", "openPipe")

OpenPipe ==
    /\ Covers("openPipe") /\ Keeps
    /\ \/ Acquire("pipe", fileException, "allocateElfLines")
       \/ Fails /\ Throw(outOfMemoryException) /\ UNCHANGED held

AllocateElfLines ==
    /\ Covers("allocateElfLines") /\ Acquire("elfLines", outOfMemoryException, "readElf")
    /\ parse' = ParseStart /\ UNCHANGED <<elf, walk, outputs, summary>>

\* Reading the pipe may fail, or the room for a row or the name of a file.
ParseElfLine ==
    /\ Covers("readElf") /\ parse.read < Len(dump) /\ UNCHANGED <<held, elf, walk, outputs, summary>>
    /\ \/ Works /\ Goes("readElf") /\ parse' = ParseLine(parse, dump[parse.read + 1])
       \/ Fails /\ UNCHANGED parse /\ \E e \in {fileException, outOfMemoryException} : Throw(e)

\* The rows are sorted when the try is over and the pipe is closed.
SortElfLines ==
    /\ Covers("readElf") /\ parse.read = Len(dump) /\ Release({"pipe"}) /\ EndTry("parsedElf")
    /\ elf' = Sorted(Files, ParseEnd(parse))
    /\ UNCHANGED <<failures, parse, walk, outputs, summary>>

CatchElfLines ==
    /\ Covers("catchElfLines") /\ Release({"elfLines", "pipe"}) /\ Goes("parsedElf")
    /\ elf' = NoLines /\ UNCHANGED <<failures, parse, walk, outputs, summary>>

\* The code that ElfLines_Parse left behind makes this catch run.
EndParseElf == Covers("parsedElf") /\ Keeps /\ EndTry("openSummary") /\ UNCHANGED <<held, failures>>
CatchParse  == Covers("catchParse") /\ Keeps /\ Rethrow /\ UNCHANGED <<held, failures>>

-----------------------------------------------------------------------------
(* walkElfLinesToDetermineCodeCoverage                                     *)

OpenSummary ==
    /\ Covers("openSummary") /\ UNCHANGED <<parse, elf, walk, outputs>>
    /\ \/ Works /\ held' = held \cup {"summary"} /\ summary' = << >> /\ Goes("walk")
       \/ Fails /\ Throw(fileException) /\ UNCHANGED <<held, summary>>

ShouldSkip(file) ==
    commandLine.restrict # << >> /\ \A k \in DOMAIN commandLine.restrict :
                                        commandLine.restrict[k] # Under[file]

\* Mutated form of PastFile: the rows of the file are never passed.
PastFile_Stays(file) == walk.row

\* Mutated form of PastFile: one row too far.
PastFile_Beyond(file) ==
    Min({n \in walk.row .. Len(elf) + 1 :
            n > Len(elf) \/ elf[n].file # file}) + 1

\* The first row behind those of the file.
PastFile(file) ==
    Min({n \in walk.row .. Len(elf) + 1 :
            n > Len(elf) \/ elf[n].file # file})

WalkEnds ==
    /\ Covers("walk") /\ Keeps /\ walk.row > Len(elf)
    /\ Goes("uninitPrivateData") /\ UNCHANGED <<held, failures>>

WalkSourceFile ==
    /\ Covers("walk") /\ walk.row <= Len(elf) /\ UNCHANGED <<held, failures, parse, elf, outputs, summary>>
    /\ LET file == elf[walk.row].file
       IN  IF ShouldSkip(file)
           THEN walk' = [walk EXCEPT !.row = PastFile(file)] /\ Goes("walk")
           ELSE walk' = [AtStart EXCEPT !.row = walk.row, !.file = file] /\ Goes("openSource")

OpenSource == Covers("openSource") /\ Keeps /\ Acquire("source", fileException, "readSource")

\* Its size, the room for its text, and its text.
ReadSource ==
    /\ Covers("readSource") /\ Keeps
    /\ \/ Acquire("sourceText", outOfMemoryException, "openDest")
       \/ Fails /\ Throw(fileException) /\ UNCHANGED held

\* The file of that name is emptied, if there is room for its path.
OpenDest ==
    /\ Covers("openDest") /\ UNCHANGED <<parse, elf, walk, summary>>
    /\ \/ /\ Works /\ held' = held \cup {"dest"} /\ Goes("lines")
          /\ LET name == BaseName[walk.file]
             IN  outputs' = [other \in DOMAIN outputs \cup {name} |->
                                 IF other = name THEN << >> ELSE outputs[other]]
       \/ /\ Fails /\ UNCHANGED <<held, outputs>>
          /\ \E e \in {fileException, outOfMemoryException} : Throw(e)

\* The rows of the line, which follow each other.
Matches(n) == n \in DOMAIN elf /\ elf[n].file = walk.file /\ elf[n].line = walk.line
MatchingRows == {n \in walk.row .. Len(elf) : \A k \in walk.row .. n : Matches(k)}

\* Only a region that was marked has read counts.
HasReadCount(address) == IsMapped(address, 2) /\ ~IsWritable(address, 2)
ReadCount(address) == ReadsOf(CellOf(address))

\* Mutated form of MinCount: the highest count.
MinCount_Max(rows) == Max({ReadCount(elf[n].address) : n \in rows})
MinCount(rows) == Min({ReadCount(elf[n].address) : n \in rows})

WriteLine ==
    /\ Covers("lines") /\ walk.line <= sources[walk.file] /\ UNCHANGED <<held, failures, parse, elf, summary>>
    /\ LET rows == MatchingRows
           count == IF rows = {} THEN NotExecutable ELSE MinCount(rows)
       IN  IF \A n \in rows : HasReadCount(elf[n].address)
           THEN /\ outputs' = [outputs EXCEPT ![BaseName[walk.file]] = Append(@, count)]
                /\ walk' = [walk EXCEPT !.line = @ + 1, !.row = @ + Cardinality(rows),
                                        !.executable = @ + (IF rows = {} THEN 0 ELSE 1),
                                        !.executed = @ + (IF count > 0 THEN 1 ELSE 0)]
                /\ Goes("lines")
           ELSE Throw(busErrorException) /\ UNCHANGED <<outputs, walk>>

\* The assertion that a line of the file was executable stops the process.
EndOfSource ==
    /\ Covers("lines") /\ walk.line > sources[walk.file] /\ UNCHANGED <<failures, parse, elf, walk, outputs>>
    /\ IF walk.executable > 0
       THEN /\ summary' = Append(summary, <<walk.file, walk.executable, walk.executed>>)
            /\ Release({"source", "dest"}) /\ Goes("walk")
       ELSE Goes("asserted") /\ UNCHANGED <<held, summary>>

-----------------------------------------------------------------------------
(* The files that are closed in the end may be closed already: what fclose *)
(* does with a null pointer depends on the host.                           *)

UninitPrivateData(place) ==
    \/ Goes(place) \/ ({"source", "dest"} \ held # {} /\ Goes("crashed"))

CoverageResources == {"summary", "source", "dest", "elfLines", "outputFilename", "sourceText"}

UninitAfterWalk ==
    /\ Covers("uninitPrivateData") /\ Keeps /\ Release(CoverageResources) /\ UNCHANGED failures
    /\ UninitPrivateData("endRun")

EndRun == Covers("endRun") /\ Keeps /\ EndTry("endCoverage") /\ UNCHANGED <<held, failures>>

CatchRun ==
    /\ Covers("catchRun") /\ Keeps /\ Release(CoverageResources) /\ UNCHANGED failures
    /\ UninitPrivateData("rethrowRun")
RethrowRun == Covers("rethrowRun") /\ Keeps /\ Rethrow /\ UNCHANGED <<held, failures>>

EndCoverage == Covers("endCoverage") /\ Keeps /\ EndTry("endMain") /\ UNCHANGED <<held, failures>>
CatchCoverage ==
    Covers("catchCoverage") /\ Keeps /\ Throw(coverageException) /\ UNCHANGED <<held, failures>>

CoverageStep ==
    \/ RunCodeCoverageIfRequested \/ CodeCoverageRun \/ InitPrivateData \/ ParseElf \/ ElfLinesParse
    \/ OpenPipe \/ AllocateElfLines \/ ParseElfLine \/ SortElfLines \/ CatchElfLines \/ EndParseElf
    \/ CatchParse \/ OpenSummary \/ WalkEnds \/ WalkSourceFile \/ OpenSource
    \/ ReadSource \/ OpenDest \/ WriteLine \/ EndOfSource \/ UninitAfterWalk \/ EndRun \/ CatchRun
    \/ RethrowRun \/ EndCoverage \/ CatchCoverage
=============================================================================
