------------------------------ MODULE Table68k ------------------------------
(***************************************************************************)
(* The file table68k: one row for each instruction or family of            *)
(* instructions, in the order of the file, as build68k.c turns it into     *)
(* defs68k.  A row has the bit pattern, the processor level it needs, the  *)
(* privilege level, the mnemonic, the size and the two operands; the       *)
(* columns of the flags and of the uses of operands, which only the        *)
(* compiler of translated code reads, are left out.                        *)
(***************************************************************************)

\* The operands, as readcpu.c parses them: a register field, the register as
\* an address with predecrement or postincrement, an immediate, or an
\* effective address all, all but some, or only some of whose modes match,
\* or of which one mode stands for another
Operand(kind, field, how, modes, to) ==
    [kind |-> kind, field |-> field, how |-> how, modes |-> modes, to |-> to]
None              == Operand("none", "", "", {}, "")
Dn(f)             == Operand("Dreg", f, "", {}, "")
An(f)             == Operand("Areg", f, "", {}, "")
Apd(f)            == Operand("Apdi", f, "", {}, "")
Api(f)            == Operand("Aipi", f, "", {}, "")
Imm(f)            == Operand("#", f, "", {}, "")
Ea(f)             == Operand("ea", f, "all", {}, "")
EaNot(f, modes)   == Operand("ea", f, "excl", modes, "")
EaOf(f, modes)    == Operand("ea", f, "only", modes, "")
EaAs(f, mode, to) == Operand("ea", f, "repl", {mode}, to)

I(pattern, clev, plev, name, size, src, dst) ==
    [pattern |-> pattern, clev |-> clev, plev |-> plev, name |-> name,
     size |-> size, src |-> src, dst |-> dst]

Rows == <<
    I("0000000000111100",0,0,"ORSR","B",Imm("1"), None),
    I("0000000001111100",0,2,"ORSR","W",Imm("1"), None),
    I("00000zz011sssSSS",2,0,"CHK2","z",Imm("1"), EaNot("s",{"Dreg","Areg","Aipi","Apdi","imm"})),
    I("00000000zzdddDDD",0,0,"OR","z",Imm("z"), EaNot("d",{"Areg"})),
    I("0000001000111100",0,0,"ANDSR","B",Imm("1"), None),
    I("0000001001111100",0,2,"ANDSR","W",Imm("1"), None),
    I("00000010zzdddDDD",0,0,"AND","z",Imm("z"), EaNot("d",{"Areg"})),
    I("00000100zzdddDDD",0,0,"SUB","z",Imm("z"), EaNot("d",{"Areg"})),
    I("00000110zzdddDDD",0,0,"ADD","z",Imm("z"), EaNot("d",{"Areg"})),
    I("0000011011sssSSS",2,0,"CALLM","",EaNot("s",{"Dreg","Areg","Aipi","Apdi","imm"}), None),
    I("0000011011sssSSS",2,0,"RTM","",EaOf("s",{"Dreg","Areg"}), None),
    I("0000100000sssSSS",0,0,"BTST","",Imm("1"), EaNot("s",{"Areg"})),
    I("0000100001sssSSS",0,0,"BCHG","",Imm("1"), EaNot("s",{"Areg","imm"})),
    I("0000100010sssSSS",0,0,"BCLR","",Imm("1"), EaNot("s",{"Areg","imm"})),
    I("0000100011sssSSS",0,0,"BSET","",Imm("1"), EaNot("s",{"Areg","imm"})),
    I("0000101000111100",0,0,"EORSR","B",Imm("1"), None),
    I("0000101001111100",0,2,"EORSR","W",Imm("1"), None),
    I("00001010zzdddDDD",0,0,"EOR","z",Imm("z"), EaNot("d",{"Areg"})),
    I("00001100zzsssSSS",0,0,"CMP","z",Imm("z"), EaNot("s",{"Areg","imm"})),
    I("0000101011sssSSS",2,0,"CAS","B",Imm("1"), EaNot("s",{"Dreg","Areg","imm","PC8r","PC16"})),
    I("0000110011sssSSS",2,0,"CAS","W",Imm("1"), EaNot("s",{"Dreg","Areg","imm","PC8r","PC16"})),
    I("0000110011111100",2,0,"CAS2","W",Imm("2"), None),
    I("00001110zzsssSSS",2,2,"MOVES","z",Imm("1"), EaNot("s",{"Dreg","Areg","imm","PC8r","PC16"})),
    I("0000111011sssSSS",2,0,"CAS","L",Imm("1"), EaNot("s",{"Dreg","Areg","imm","PC8r","PC16"})),
    I("0000111011111100",2,0,"CAS2","L",Imm("2"), None),
    I("0000rrr100dddDDD",0,0,"MVPMR","W",EaAs("d","Areg","Ad16"), Dn("r")),
    I("0000rrr101dddDDD",0,0,"MVPMR","L",EaAs("d","Areg","Ad16"), Dn("r")),
    I("0000rrr110dddDDD",0,0,"MVPRM","W",Dn("r"), EaAs("d","Areg","Ad16")),
    I("0000rrr111dddDDD",0,0,"MVPRM","L",Dn("r"), EaAs("d","Areg","Ad16")),
    I("0000rrr100sssSSS",0,0,"BTST","",Dn("r"), EaNot("s",{"Areg"})),
    I("0000rrr101sssSSS",0,0,"BCHG","",Dn("r"), EaNot("s",{"Areg","imm"})),
    I("0000rrr110sssSSS",0,0,"BCLR","",Dn("r"), EaNot("s",{"Areg","imm"})),
    I("0000rrr111sssSSS",0,0,"BSET","",Dn("r"), EaNot("s",{"Areg","imm"})),
    I("0001DDDdddsssSSS",0,0,"MOVE","B",Ea("s"), EaNot("d",{"Areg"})),
    I("0010DDDdddsssSSS",0,0,"MOVEA","L",Ea("s"), EaOf("d",{"Areg"})),
    I("0010DDDdddsssSSS",0,0,"MOVE","L",Ea("s"), EaNot("d",{"Areg"})),
    I("0011DDDdddsssSSS",0,0,"MOVEA","W",Ea("s"), EaOf("d",{"Areg"})),
    I("0011DDDdddsssSSS",0,0,"MOVE","W",Ea("s"), EaNot("d",{"Areg"})),
    I("01000000zzdddDDD",0,0,"NEGX","z",EaNot("d",{"Areg"}), None),
    I("0100000011dddDDD",0,1,"MVSR2","W",EaNot("d",{"Areg"}), None),
    I("01000010zzdddDDD",0,0,"CLR","z",EaNot("d",{"Areg"}), None),
    I("0100001011dddDDD",1,0,"MVSR2","B",EaNot("d",{"Areg"}), None),
    I("01000100zzdddDDD",0,0,"NEG","z",EaNot("d",{"Areg"}), None),
    I("0100010011sssSSS",0,0,"MV2SR","B",EaNot("s",{"Areg"}), None),
    I("01000110zzdddDDD",0,0,"NOT","z",EaNot("d",{"Areg"}), None),
    I("0100011011sssSSS",0,2,"MV2SR","W",EaNot("s",{"Areg"}), None),
    I("0100100000001rrr",2,0,"LINK","L",An("r"), Imm("2")),
    I("0100100000dddDDD",0,0,"NBCD","B",EaNot("d",{"Areg"}), None),
    I("0100100001001kkk",2,0,"BKPT","",Imm("k"), None),
    I("0100100001sssSSS",0,0,"SWAP","W",EaOf("s",{"Dreg"}), None),
    I("0100100001sssSSS",0,0,"PEA","L",EaNot("s",{"Dreg","Areg","Aipi","Apdi","imm"}), None),
    I("0100100010dddDDD",0,0,"EXT","W",EaOf("d",{"Dreg"}), None),
    I("0100100010dddDDD",0,0,"MVMLE","W",Imm("1"), EaNot("d",{"Dreg","Areg","Aipi"})),
    I("0100100011dddDDD",0,0,"EXT","L",EaOf("d",{"Dreg"}), None),
    I("0100100011dddDDD",0,0,"MVMLE","L",Imm("1"), EaNot("d",{"Dreg","Areg","Aipi"})),
    I("0100100111dddDDD",0,0,"EXT","B",EaOf("d",{"Dreg"}), None),
    I("01001010zzsssSSS",0,0,"TST","z",Ea("s"), None),
    I("0100101011dddDDD",0,0,"TAS","B",EaNot("d",{"Areg"}), None),
    I("0100101011111100",0,0,"ILLEGAL","",None, None),
    I("0100110000sssSSS",2,0,"MULL","L",Imm("1"), EaNot("s",{"Areg"})),
    I("0100110001sssSSS",2,0,"DIVL","L",Imm("1"), EaNot("s",{"Areg"})),
    I("0100110010sssSSS",0,0,"MVMEL","W",Imm("1"), EaNot("s",{"Dreg","Areg","Apdi","imm"})),
    I("0100110011sssSSS",0,0,"MVMEL","L",Imm("1"), EaNot("s",{"Dreg","Areg","Apdi","imm"})),
    I("010011100100JJJJ",0,0,"TRAP","",Imm("J"), None),
    I("0100111001010rrr",0,0,"LINK","W",An("r"), Imm("1")),
    I("0100111001011rrr",0,0,"UNLK","L",An("r"), None),
    I("0100111001100rrr",0,2,"MVR2USP","L",An("r"), None),
    I("0100111001101rrr",0,2,"MVUSP2R","L",An("r"), None),
    I("0100111001110000",0,2,"RESET","",None, None),
    I("0100111001110001",0,0,"NOP","",None, None),
    I("0100111001110010",0,2,"STOP","",Imm("1"), None),
    I("0100111001110011",0,2,"RTE","",None, None),
    I("0100111001110100",0,0,"RTD","",Imm("1"), None),
    I("0100111001110101",0,0,"RTS","",None, None),
    I("0100111001110110",0,0,"TRAPV","",None, None),
    I("0100111001110111",0,0,"RTR","",None, None),
    I("0100111001111010",1,2,"MOVEC2","",Imm("1"), None),
    I("0100111001111011",1,2,"MOVE2C","",Imm("1"), None),
    I("0100111010sssSSS",0,0,"JSR","L",EaNot("s",{"Dreg","Areg","Aipi","Apdi","imm"}), None),
    I("0100rrr100sssSSS",0,0,"CHK","L",EaNot("s",{"Areg"}), Dn("r")),
    I("0100rrr110sssSSS",0,0,"CHK","W",EaNot("s",{"Areg"}), Dn("r")),
    I("0100111011sssSSS",0,0,"JMP","L",EaNot("s",{"Dreg","Areg","Aipi","Apdi","imm"}), None),
    I("0100rrr111sssSSS",0,0,"LEA","L",EaNot("s",{"Dreg","Areg","Aipi","Apdi","imm"}), An("r")),
    I("0101jjj0zzdddDDD",0,0,"ADDA","z",Imm("j"), EaOf("d",{"Areg"})),
    I("0101jjj0zzdddDDD",0,0,"ADD","z",Imm("j"), EaNot("d",{"Areg"})),
    I("0101jjj1zzdddDDD",0,0,"SUBA","z",Imm("j"), EaOf("d",{"Areg"})),
    I("0101jjj1zzdddDDD",0,0,"SUB","z",Imm("j"), EaNot("d",{"Areg"})),
    I("0101cccc11001rrr",0,0,"DBcc","W",Dn("r"), Imm("1")),
    I("0101cccc11dddDDD",0,0,"Scc","B",EaNot("d",{"Areg"}), None),
    I("0101cccc11111010",2,0,"TRAPcc","",Imm("1"), None),
    I("0101cccc11111011",2,0,"TRAPcc","",Imm("2"), None),
    I("0101cccc11111100",2,0,"TRAPcc","",None, None),
    I("0110000100000000",0,0,"BSR","W",Imm("1"), None),
    I("01100001IIIIIIII",0,0,"BSR","B",Imm("i"), None),
    I("0110000111111111",0,0,"BSR","L",Imm("2"), None),
    I("0110CCCC00000000",0,0,"Bcc","W",Imm("1"), None),
    I("0110CCCCIIIIIIII",0,0,"Bcc","B",Imm("i"), None),
    I("0110CCCC11111111",0,0,"Bcc","L",Imm("2"), None),
    I("0111rrr0iiiiiiii",0,0,"MOVE","L",Imm("i"), Dn("r")),
    I("1000rrr0zzsssSSS",0,0,"OR","z",EaNot("s",{"Areg"}), Dn("r")),
    I("1000rrr011sssSSS",0,0,"DIVU","W",EaNot("s",{"Areg"}), Dn("r")),
    I("1000rrr100dddDDD",0,0,"SBCD","B",EaOf("d",{"Dreg"}), Dn("r")),
    I("1000rrr100dddDDD",0,0,"SBCD","B",EaAs("d","Areg","Apdi"), Apd("r")),
    I("1000rrr1zzdddDDD",0,0,"OR","z",Dn("r"), EaNot("d",{"Areg","Dreg"})),
    I("1000rrr101dddDDD",2,0,"PACK","",EaOf("d",{"Dreg"}), Dn("r")),
    I("1000rrr101dddDDD",2,0,"PACK","",EaAs("d","Areg","Apdi"), Apd("r")),
    I("1000rrr110dddDDD",2,0,"UNPK","",EaOf("d",{"Dreg"}), Dn("r")),
    I("1000rrr110dddDDD",2,0,"UNPK","",EaAs("d","Areg","Apdi"), Apd("r")),
    I("1000rrr111sssSSS",0,0,"DIVS","W",EaNot("s",{"Areg"}), Dn("r")),
    I("1001rrr0zzsssSSS",0,0,"SUB","z",Ea("s"), Dn("r")),
    I("1001rrr011sssSSS",0,0,"SUBA","W",Ea("s"), An("r")),
    I("1001rrr1zzdddDDD",0,0,"SUBX","z",EaOf("d",{"Dreg"}), Dn("r")),
    I("1001rrr1zzdddDDD",0,0,"SUBX","z",EaAs("d","Areg","Apdi"), Apd("r")),
    I("1001rrr1zzdddDDD",0,0,"SUB","z",Dn("r"), EaNot("d",{"Areg","Dreg"})),
    I("1001rrr111sssSSS",0,0,"SUBA","L",Ea("s"), An("r")),
    I("1011rrr0zzsssSSS",0,0,"CMP","z",Ea("s"), Dn("r")),
    I("1011rrr011sssSSS",0,0,"CMPA","W",Ea("s"), An("r")),
    I("1011rrr111sssSSS",0,0,"CMPA","L",Ea("s"), An("r")),
    I("1011rrr1zzdddDDD",0,0,"CMPM","z",EaAs("d","Areg","Aipi"), Api("r")),
    I("1011rrr1zzdddDDD",0,0,"EOR","z",Dn("r"), EaNot("d",{"Areg"})),
    I("1100rrr0zzsssSSS",0,0,"AND","z",EaNot("s",{"Areg"}), Dn("r")),
    I("1100rrr011sssSSS",0,0,"MULU","W",EaNot("s",{"Areg"}), Dn("r")),
    I("1100rrr100dddDDD",0,0,"ABCD","B",EaOf("d",{"Dreg"}), Dn("r")),
    I("1100rrr100dddDDD",0,0,"ABCD","B",EaAs("d","Areg","Apdi"), Apd("r")),
    I("1100rrr1zzdddDDD",0,0,"AND","z",Dn("r"), EaNot("d",{"Areg","Dreg"})),
    I("1100rrr101dddDDD",0,0,"EXG","L",Dn("r"), EaOf("d",{"Dreg"})),
    I("1100rrr101dddDDD",0,0,"EXG","L",An("r"), EaOf("d",{"Areg"})),
    I("1100rrr110dddDDD",0,0,"EXG","L",Dn("r"), EaOf("d",{"Areg"})),
    I("1100rrr111sssSSS",0,0,"MULS","W",EaNot("s",{"Areg"}), Dn("r")),
    I("1101rrr0zzsssSSS",0,0,"ADD","z",Ea("s"), Dn("r")),
    I("1101rrr011sssSSS",0,0,"ADDA","W",Ea("s"), An("r")),
    I("1101rrr1zzdddDDD",0,0,"ADDX","z",EaOf("d",{"Dreg"}), Dn("r")),
    I("1101rrr1zzdddDDD",0,0,"ADDX","z",EaAs("d","Areg","Apdi"), Apd("r")),
    I("1101rrr1zzdddDDD",0,0,"ADD","z",Dn("r"), EaNot("d",{"Areg","Dreg"})),
    I("1101rrr111sssSSS",0,0,"ADDA","L",Ea("s"), An("r")),
    I("1110jjjfzz000RRR",0,0,"ASf","z",Imm("j"), Dn("R")),
    I("1110jjjfzz001RRR",0,0,"LSf","z",Imm("j"), Dn("R")),
    I("1110jjjfzz010RRR",0,0,"ROXf","z",Imm("j"), Dn("R")),
    I("1110jjjfzz011RRR",0,0,"ROf","z",Imm("j"), Dn("R")),
    I("1110rrrfzz100RRR",0,0,"ASf","z",Dn("r"), Dn("R")),
    I("1110rrrfzz101RRR",0,0,"LSf","z",Dn("r"), Dn("R")),
    I("1110rrrfzz110RRR",0,0,"ROXf","z",Dn("r"), Dn("R")),
    I("1110rrrfzz111RRR",0,0,"ROf","z",Dn("r"), Dn("R")),
    I("1110000f11dddDDD",0,0,"ASfW","W",EaNot("d",{"Dreg","Areg"}), None),
    I("1110001f11dddDDD",0,0,"LSfW","W",EaNot("d",{"Dreg","Areg"}), None),
    I("1110010f11dddDDD",0,0,"ROXfW","W",EaNot("d",{"Dreg","Areg"}), None),
    I("1110011f11dddDDD",0,0,"ROfW","W",EaNot("d",{"Dreg","Areg"}), None),
    I("1110100011sssSSS",2,0,"BFTST","",Imm("1"), EaNot("s",{"Areg","Apdi","Aipi","imm"})),
    I("1110100111sssSSS",2,0,"BFEXTU","",Imm("1"), EaNot("s",{"Areg","Apdi","Aipi","imm"})),
    I("1110101011sssSSS",2,0,"BFCHG","",Imm("1"), EaNot("s",{"Areg","Apdi","Aipi","imm","PC8r","PC16"})),
    I("1110101111sssSSS",2,0,"BFEXTS","",Imm("1"), EaNot("s",{"Areg","Apdi","Aipi","imm"})),
    I("1110110011sssSSS",2,0,"BFCLR","",Imm("1"), EaNot("s",{"Areg","Apdi","Aipi","imm","PC8r","PC16"})),
    I("1110110111sssSSS",2,0,"BFFFO","",Imm("1"), EaNot("s",{"Areg","Apdi","Aipi","imm"})),
    I("1110111011sssSSS",2,0,"BFSET","",Imm("1"), EaNot("s",{"Areg","Apdi","Aipi","imm","PC8r","PC16"})),
    I("1110111111sssSSS",2,0,"BFINS","",Imm("1"), EaNot("s",{"Areg","Apdi","Aipi","imm","PC8r","PC16"})),
    I("1111001000sssSSS",3,0,"FPP","",Imm("1"), Ea("s")),
    I("1111001001sssSSS",3,0,"FDBcc","",Imm("1"), EaAs("s","Areg","Dreg")),
    I("1111001001sssSSS",3,0,"FScc","",Imm("1"), EaNot("s",{"Areg","imm","PC8r","PC16"})),
    I("1111001001111010",3,0,"FTRAPcc","",Imm("1"), None),
    I("1111001001111011",3,0,"FTRAPcc","",Imm("2"), None),
    I("1111001001111100",3,0,"FTRAPcc","",None, None),
    I("1111001010KKKKKK",3,0,"FBcc","",Imm("K"), Imm("1")),
    I("1111001011KKKKKK",3,0,"FBcc","",Imm("K"), Imm("2")),
    I("1111001100sssSSS",3,2,"FSAVE","",EaNot("s",{"Dreg","Areg","Aipi","imm","PC8r","PC16"}), None),
    I("1111001101sssSSS",3,2,"FRESTORE","",EaNot("s",{"Dreg","Areg","Apdi","imm"}), None),
    I("1111000000sssSSS",4,0,"MMUOP","",Imm("1"), Ea("s"))
>>
=============================================================================
