------------------------------ MODULE HelloWorld -------------------------------
(* The program that software/hello_world.py writes: it draws a box on the UART,*)
(* with functions that call one another through link registers. A call is      *)
(* appended as a placeholder and patched once the labels are known.            *)
EXTENDS CpuTypes, Sequences

CONSTANTS
    Width,      \* characters of a border: 20
    Rows,       \* rows between the borders: 8
    TopBit      \* number of the address bit that selects MMIO: 31

HASH == 35
SPACE == 32
NEWLINE == 10
-------------------------------------------------------------------------------
(* The encoders of assembler.py that the script uses, to instruction records.  *)
(* Register fields that a format lacks hold the bits of the immediate that lie *)
(* there in the word: imm[4:0], or imm[4:1] and imm[11], or imm[19:15].        *)
Fields(opcode, funct, rd, rs1, rs2, imm) ==
    [opcode |-> opcode, funct |-> funct, rd |-> rd, rs1 |-> rs1, rs2 |-> rs2,
     imm |-> imm % WordSize]
Scrambled(imm) == 2 * ((imm \div 2) % 16) + ((imm \div 2048) % 2)

addi(rd, rs1, imm) == Fields("OP_IMM", "ADD", rd, rs1, imm % 32, imm)
sll(rd, rs1, rs2) == Fields("OP", "SLL", rd, rs1, rs2, 0)
sw(rs2, rs1, imm) == Fields("STORE", "OTHER", imm % 32, rs1, rs2, imm)
bne(rs1, rs2, imm) == Fields("BRANCH", "BNE", Scrambled(imm), rs1, rs2, imm)
jal(rd, imm) == Fields("JAL", "OTHER", rd, (imm \div 32768) % 32, Scrambled(imm), imm)
jalr(rd, rs1, imm) == Fields("JALR", "OTHER", rd, rs1, imm % 32, imm)

Nops == <<Nop, Nop, Nop, Nop>>
-------------------------------------------------------------------------------
(* The program, function by function.                                          *)

\* program.append(0), to be patched with a jal to function f linking in rd.
Call(rd, f) == <<[Nop EXCEPT !.opcode = "CALL", !.rd = rd, !.funct = f]>> \o Nops

\* Repeat body until register r has counted down to zero. No NOP follows the
\* branch.
CountedLoop(body, r) ==
    body \o <<addi(r, r, -1)>> \o Nops \o <<bne(r, 0, -4 * (Len(body) + 5))>>

\* Faulty variant of Put: no NOPs behind the call.
PutUnpadded(c) == <<addi(7, 0, c)>> \o Nops \o <<Call(2, "putchar")[1]>>
Put(c) == <<addi(7, 0, c)>> \o Nops \o Call(2, "putchar")

Main ==
    <<addi(5, 0, 1), addi(6, 0, TopBit), sll(5, 5, 6)>> \o Nops
      \o Call(1, "draw_top")
      \o <<addi(9, 0, Rows)>> \o Nops
      \o CountedLoop(Call(1, "draw_middle"), 9)
      \o Call(1, "draw_top")
      \o <<jal(0, 0)>>                                       \* stop for ever

DrawTop ==
    <<addi(8, 0, Width)>> \o Nops \o CountedLoop(Put(HASH), 8) \o Put(NEWLINE) \o <<jalr(0, 1, 0)>>

DrawMiddle ==
    Put(HASH) \o <<addi(8, 0, Width - 2)>> \o Nops \o CountedLoop(Put(SPACE), 8)
      \o Put(HASH) \o Put(NEWLINE) \o <<jalr(0, 1, 0)>>

\* Faulty variant of PutChar: it returns through the link register of main.
PutCharWrongLink == <<sw(7, 5, 12)>> \o Nops \o <<jalr(0, 1, 0)>>
PutChar == <<sw(7, 5, 12)>> \o Nops \o <<jalr(0, 2, 0)>>

\* Index of the first word of a function.
Label(f) ==
    IF f = "draw_top" THEN Len(Main)
    ELSE IF f = "draw_middle" THEN Len(Main) + Len(DrawTop)
    ELSE Len(Main) + Len(DrawTop) + Len(DrawMiddle)                \* putchar

Unpatched == Main \o DrawTop \o DrawMiddle \o PutChar
Patched ==
    [k \in DOMAIN Unpatched |->
        IF Unpatched[k].opcode = "CALL"
        THEN jal(Unpatched[k].rd, 4 * (Label(Unpatched[k].funct) - (k - 1)))
        ELSE Unpatched[k]]

\* program.hex: padded with NOPs; a program that does not fit the ROM is refused.
Images ==
    IF Len(Patched) > RomWords THEN {}
    ELSE {[w \in RomWord |-> IF w < Len(Patched) THEN Patched[w + 1] ELSE Nop]}
-------------------------------------------------------------------------------
\* What the comments of the script say is printed: a border, Rows rows that are
\* empty between two walls, and the border again.
Row(c) == <<HASH>> \o [k \in 1 .. Width - 2 |-> c] \o <<HASH, NEWLINE>>
LineLength == Width + 1
Screen ==
    [k \in 1 .. LineLength * (Rows + 2) |->
        LET line == (k - 1) \div LineLength
            column == ((k - 1) % LineLength) + 1
        IN  Row(IF line \in 1 .. Rows THEN SPACE ELSE HASH)[column]]
================================================================================
