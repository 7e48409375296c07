--------------------------- MODULE MCPinkySimMain ---------------------------
EXTENDS PinkySimMain

Argument1(text)              == [text |-> text, value |-> 0, size |-> 1]
Token(text, value, size)     == [text |-> text, value |-> value, size |-> size]
Option(text)                 == Token(text, 0, 2)
Number(value)                == Token("number", value, 2)
Buffer(address, size)        == [address |-> address, size |-> size]

MCFiles    == <<"lib/a.c", "src/a.c", "src/b.c">>
MCBaseName == ("lib/a.c" :> "a.c") @@ ("src/a.c" :> "a.c") @@ ("src/b.c" :> "b.c")
MCUnder    == ("lib/a.c" :> "lib") @@ ("src/a.c" :> "src") @@ ("src/b.c" :> "src")
MCLooks    == [char \in {"m"} |-> Access(14, 2)]
MCSources  == ("lib/a.c" :> 2) @@ ("src/a.c" :> 2) @@ ("src/b.c" :> 3)

\* An image of five words whose stack ends at 72, four bytes below which are
\* the arguments' pointers; its code begins at 8.
Image(size, sp) == [size |-> size, sp |-> sp]
Exit == <<Instruction("exit", 10)>>

Session(arguments, file, instructions, scripts, lines) ==
    [args |-> arguments, image |-> file, program |-> instructions, scripts |-> scripts,
     dump |-> lines, sources |-> MCSources]

-----------------------------------------------------------------------------
(* The options of the command line, before an image and two arguments.     *)

Flash(base, size) == <<Option("--flash"), Number(base), Number(size)>>
Ram(base, size)   == <<Option("--ram"), Number(base), Number(size)>>
Program           == <<Argument1("image"), Token("argument", 0, 3)>>

OptionLists ==
    {<< >>, <<Option("--gdbPort"), Number(4)>>, <<Option("--gdbPort"), Number(5)>>, <<Option("--gdbPort")>>,
     <<Option("--restrict"), Token("src", 0, 2)>>, <<Option("--restrict"), Token("src", 0, 2), Option("--other")>>,
     Flash(0, 20) \o Ram(64, 10), Flash(0, 20) \o Ram(64, 6), Flash(0, 20) \o Flash(4, 16),
     Ram(0, 80), Flash(0, 12) \o Ram(12, 60), Flash(0, 0), Ram(64, 8) \o Flash(68, 0), Flash(4, 20),
     <<Option("--flash"), Number(0)>>}

CommandLines ==
    {Session(options1 \o Program, file, Exit, << >>, << >>) :
        options1 \in OptionLists, file \in {Image(20, 74)}}
    \cup {Session(Program, file, Exit, << >>, << >>) : file \in {Image(20, 64), Image(4, 74), Image(3, 74)}}
    \cup {Session(<<Option("--restrict"), Token("src", 0, 2)>>, Image(20, 74), Exit, << >>, << >>)}

-----------------------------------------------------------------------------
(* Calls of the host, and GDBs that come and go.                           *)

Start == <<Argument1("image")>>
Covering(restricted) ==
    <<Option("--codecov"), Token("elf", 0, 2), Token("out", 0, 2)>> \o restricted \o Start
OnlySrc == <<Option("--restrict"), Token("src", 0, 2)>>
Plain(address) == Instruction("plain", address)

Mapped   == Buffer(66, 2)
InFlash  == Buffer(8, 2)
Unmapped == Buffer(73, 4)

Calls ==
    {Call("read", 3, <<Mapped>>), Call("read", 3, <<InFlash>>), Call("write", 3, <<InFlash>>),
     Call("write", 1, <<Mapped>>), Call("read", 0, <<Mapped>>),
     Call("open", 0, <<InFlash>>), Call("open", 0, <<Unmapped>>), Call("unlink", 0, <<Mapped>>),
     Call("rename", 0, <<InFlash, Mapped>>), Call("rename", 0, <<InFlash, Unmapped>>),
     Call("fstat", 3, <<Mapped>>), Call("stat", 0, <<InFlash, InFlash>>), Call("stat", 0, <<InFlash, Mapped>>),
     Call("lseek", 3, << >>), Call("close", 3, << >>), Call("close", 1, << >>)}

HostCallSessions ==
    {Session(Start, Image(20, 74), <<Calling(made, 8)>> \o Exit, << >>, << >>) : made \in Calls}

GdbSessions ==
    {Session(<<Option("--breakOnStart")>> \o Start, Image(20, 74), <<Plain(8)>> \o Exit,
             <<<<"+", "c">>, <<"+", "c">>>>, << >>),
     Session(Start, Image(20, 74), <<Instruction("bkpt", 8)>> \o Exit, <<<<"+">>, <<"+", "c">>>>, << >>),
     Session(Start, Image(20, 74), <<Plain(8)>> \o Exit, <<<<"c", "+", "c">>>>, << >>),
     Session(Start, Image(20, 74), <<Calling(Call("write", 1, <<Mapped>>), 8)>> \o Exit,
             <<<<"+", "F">>, <<"+", "F", "c">>>>, << >>),
     Session(Start, Image(20, 74), <<Calling(Call("read", 0, <<Mapped>>), 8)>> \o Exit, <<<<"+", "F", "c">>>>, << >>),
     Session(Start, Image(20, 74), <<Instruction("bkpt", 8), Plain(12)>> \o Exit,
             <<<<"+", "c", "c">>, <<"+">>, <<"+", "c">>>>, << >>),
     Session(Covering(OnlySrc), Image(20, 74), <<Instruction("bkpt", 8), Plain(12)>> \o Exit,
             <<<<"+", "c">>, <<"+", "c">>>>, <<Unit("src/a.c"), Row(1, 8), Blank, Row(2, 12)>>)}

-----------------------------------------------------------------------------
(* Half-words of the flash that are read as data, of a program with a row  *)
(* for each of the half-words from 8 to 14.  The second half-word of an    *)
(* instruction is read behind the first.                                   *)

EveryHalfWord ==
    <<Unit("src/a.c"), Row(1, 8), Row(1, 10), Blank, Row(2, 12), Blank,
      Unit("src/b.c"), Row(2, 14), Blank>>
Reads(address, size) == <<Access(address, size)>>

Loads   == {Reads(10, 2), Reads(14, 2), Reads(14, 2) \o Reads(12, 2), Reads(12, 4), Reads(66, 2)}
Buffers == {Buffer(8, 2), Buffer(14, 2), Buffer(12, 4), Mapped}

DataReads ==
    {Session(Covering(<< >>), Image(20, 74), <<Reading(accesses, 8)>> \o Exit, << >>, EveryHalfWord) :
        accesses \in Loads}
    \cup {Session(Covering(<< >>), Image(20, 74), <<Calling(made, 8)>> \o Exit, << >>, EveryHalfWord) :
            made \in {Call("write", 3, <<buffer>>) : buffer \in Buffers}
                     \cup {Call("rename", 0, <<buffer, Buffer(14, 2)>>) : buffer \in Buffers \cup {Unmapped}}
                     \cup {Call("stat", 0, <<Buffer(14, 2), Mapped>>)}}
    \cup {Session(Covering(<< >>), Image(20, 74), <<Instruction("bkpt", 8)>> \o Exit,
                  <<<<"+", "m", "+", "c">>>>, EveryHalfWord),
          Session(Covering(<< >>), Image(20, 74), <<Calling(Call("write", 1, <<InFlash>>), 8)>> \o Exit,
                  <<<<"+", "m", "+", "F">>>>, EveryHalfWord)}
    \cup {Session(Flashes \o Ram(12, 62) \o Covering(<< >>), Image(20, 74),
                  <<Reading(Reads(14, 2), 8)>> \o Exit, << >>, EveryHalfWord) :
            Flashes \in {Flash(0, 20), Flash(0, 20) \o Flash(4, 16), Flash(0, 12) \o Flash(12, 8), Flash(0, 12)}}

-----------------------------------------------------------------------------
(* Code coverage: readelf's dumps.                                         *)

Looping == <<Plain(8), Plain(8), Plain(12)>> \o Exit

Texts == {Row(1, 0), Row(1, 8), Row(2, 14), Blank, Unit("src/b.c")}
ShortDumps == UNION {[1 .. n -> Texts] : n \in 0 .. 4}

Dumps ==
    {<<Unit("src/a.c")>> \o short : short \in ShortDumps}
    \cup {<<Heading, Blank, Unit("src/b.c"), Row(3, 8), Blank, Row(1, 12), Row(3, 14), Blank,
            Unit("lib/a.c"), Row(2, 10), Blank, Row(2, 8), Blank,
            Unit("src/a.c"), Row(1, 8), Blank, Row(1, 12), Blank>>,
          <<Unit("src/a.c"), Row(1, 8), Row(3, 10)>>, <<Unit("src/a.c"), Row(1, 8), Row(1, 64)>>,
          <<Row(1, 8), Unit("lib/a.c"), Row(3, 10)>>}

CoverageSessions ==
    {Session(Covering(restricted), Image(20, 74), Looping, << >>, lines) :
        restricted \in {<< >>, OnlySrc}, lines \in Dumps}

MCSessions == CommandLines \cup HostCallSessions \cup GdbSessions \cup DataReads \cup CoverageSessions
=============================================================================
