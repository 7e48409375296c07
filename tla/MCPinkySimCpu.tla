---------------------------- MODULE MCPinkySimCpu ----------------------------
EXTENDS PinkySimCpu, TLC

Low == {0, 1}

NoFlags == [N |-> FALSE, Z |-> FALSE, C |-> FALSE, V |-> FALSE]

ContextOf(r0, r1, sp, lr, pc, flags, memory) ==
    [r |-> (0 :> r0) @@ (1 :> r1) @@ (SP :> sp) @@ (LR :> lr), pc |-> pc, flags |-> flags,
     thumb |-> TRUE, primask |-> FALSE, memory |-> memory]

-----------------------------------------------------------------------------
(* Transfers and control: words of eight bits, half-words of code below    *)
(* six words of data, the first and the last of them read-only.            *)

CodeAddresses == {0, 2, 4, 12, 14}
DataAddresses == 16 .. 39
RamAddresses  == 20 .. 35

\* Blocks cross the ends of the RAM and of the data; pointers are misaligned or
\* point nowhere.
TransferContexts ==
    {ContextOf(r0, r1, sp, lr, pc, NoFlags, [a \in DataAddresses |-> ((a * 7) \div 4) % 4]) :
        r0 \in {16, 32, 33, 36}, r1 \in {28, 13}, sp \in {40, 36, 24, 0}, lr \in {5}, pc \in {0, 12}}

Blocks ==
    {[op |-> "push", list |-> list] : list \in {{}, {0}, {0, 1, LR}}}
    \cup {[op |-> "pop", list |-> list] : list \in {{}, {0}, {1, PC}}}
    \cup {[op |-> op, n |-> n, list |-> list] :
            op \in {"stm", "ldm"}, n \in Low, list \in {{}, {1}, {0, 1}}}

Singles ==
    {[op |-> op, d |-> 1, n |-> 0, with |-> Imm(4)] : op \in LoadOps \cup StoreOps}
    \cup {[op |-> "ldr", d |-> 0, n |-> PC, with |-> Imm(16)]}

Jumps ==
    {[op |-> "b", cond |-> cond, offset |-> -4] : cond \in {"AL", "NE", "LT"}}
    \cup {[op |-> "bl", offset |-> 8]}
    \cup {[op |-> op, m |-> m] : op \in {"bx", "blx"}, m \in {1, LR, PC}}

Addresses ==
    {[op |-> "addHigh", d |-> PC, n |-> PC, with |-> Reg(reg)] : reg \in {0, PC}}
    \cup {[op |-> "movHigh", d |-> SP, n |-> SP, with |-> Reg(0)],
          [op |-> "addSP", d |-> SP, n |-> SP, with |-> Imm(4)],
          [op |-> "subSP", d |-> SP, n |-> SP, with |-> Imm(8)],
          [op |-> "adr", d |-> 0, n |-> PC, with |-> Imm(16)],
          [op |-> "revsh", d |-> 0, n |-> 0, with |-> Reg(1)],
          [op |-> "cmp", d |-> 0, n |-> 0, with |-> Reg(1)]}

Systems ==
    {[op |-> op] : op \in {"nop", "barrier"} \cup DOMAIN Returned \cup Thrown}
    \cup {[op |-> "cps", disable |-> TRUE]}
    \cup {[op |-> "msr", sysm |-> sysm, n |-> 0] : sysm \in {"apsr", "msp", "primask", "other"}}
    \cup {[op |-> "mrs", sysm |-> sysm, d |-> 1] : sysm \in {"apsr", "msp", "primask", "other"}}
    \cup {[op |-> "msr", sysm |-> "msp", n |-> SP], [op |-> "mrs", sysm |-> "msp", d |-> PC]}

TransferInstructions == Blocks \cup Singles \cup Jumps \cup Addresses \cup Systems

-----------------------------------------------------------------------------
(* Arithmetic: words of four bits, and every pair of them.                 *)

NoAddresses == {}

DataContexts ==
    {ContextOf(r0, r1, 0, 0, 0, [NoFlags EXCEPT !.C = carry], << >>) :
        r0 \in Word, r1 \in Word, carry \in BOOLEAN}

DataInstructions ==
    {[op |-> op, d |-> 0, n |-> 0, with |-> Reg(1)] :
        op \in SumOps \cup ShiftOps \cup LogicOps \cup MoveOps}
    \cup {[op |-> op, d |-> 0, n |-> 0, with |-> Imm(0)] : op \in ShiftOps \ {"ror"}}
=============================================================================
