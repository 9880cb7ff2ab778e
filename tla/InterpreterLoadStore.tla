------------------------ MODULE InterpreterLoadStore ------------------------
(***************************************************************************)
(* interpreter/LoadStore.cpp and the accesses of inc/mem.h.  core.mem is   *)
(* the guest memory the core reaches, a byte for each valid address, and   *)
(* T is the size of an access in bytes.  The template flags of the source  *)
(* are the members of flags.  A fence has no effect of its own here: the   *)
(* model's memory is sequentially consistent.                              *)
(***************************************************************************)
EXTENDS InterpreterDP

CONSTANT gMemBreakpoints        \* the addresses with a memory breakpoint

\* mem::read and mem::write: the breakpoint of the first byte is the only one
\* that is looked up.
Hit(core, addr) == IF addr \in gMemBreakpoints THEN [core EXCEPT !.interrupts = @ \cup {"DEBUG_BREAK"}] ELSE core

inspect(core, addr, T) ==
    LET low[n \in 0 .. T] == IF n = 0 THEN 0 ELSE low[n - 1] + core.mem[addr + n - 1] * 2^((n - 1) * ByteBits)
    IN  low[T]

Stored(core, addr, T, data) ==
    [core EXCEPT !.mem = [a \in DOMAIN @ |-> IF a - addr \in 0 .. T - 1
                                             THEN Shr(data, (a - addr) * ByteBits) % 2^ByteBits ELSE @[a]]]
write(core, addr, T, data) == Stored(Hit(core, addr), addr, T, data)

\* std::atomic<T>::compare_exchange_strong: the core afterwards, with status 0
\* for success and 1 for failure in register Rs.
writeAtomic(core, addr, T, data, expected, Rs) ==
    IF inspect(core, addr, T) = expected % 2^(T * ByteBits)
    THEN SetReg(Stored(core, addr, T, data), Rs, 0)
    ELSE SetReg(core, Rs, 1)

\* _InterlockedCompareExchange128 takes the high half first; it is passed the
\* low one (mem.h:106), so the halves of the new value change places.
writeAtomic128(core, addr, dataLo, dataHigh, expectedLo, expectedHigh, Rs) ==
    IF inspect(core, addr, 8) = expectedLo /\ inspect(core, addr + 8, 8) = expectedHigh
    THEN SetReg(Stored(Stored(core, addr, 8, dataHigh), addr + 8, 8, dataLo), Rs, 0)
    ELSE SetReg(core, Rs, 1)

-----------------------------------------------------------------------------
\* The fields of the immediates are ByteBits + 1 bits wide (9 in the source)
\* and, in a pair, ByteBits bits (7 in the source).
AccessSize(T, flags) == IF "128Bit" \in flags THEN 16 ELSE T
ImmOffset(inst, T, flags) ==
    CASE "ImmSigned" \in flags -> signExtend(inst.imm, ByteBits + 1)
      [] "ImmSigned" \notin flags /\ flags \cap {"Exclusive", "Ordered"} # {} -> 0
      [] OTHER -> (inst.imm * AccessSize(T, flags)) % 2^XBits
PairOffset(inst, T, flags) ==
    IF "Exclusive" \in flags THEN 0 ELSE Mul(signExtend(inst.imm, ByteBits), AccessSize(T, flags))

AccessAddr(core, inst, flags, imm) ==
    (RegOrSP(core, inst.Rn) + IF "PostIndex" \in flags THEN 0 ELSE imm) % 2^XBits
\* Mutant: a post-indexed access leaves the base where it was.
MutantWriteBack(core, inst, flags, addr, imm) ==
    IF "WriteBack" \notin flags THEN core ELSE SetRegOrSP(core, inst.Rn, addr, FALSE)
WriteBack(core, inst, flags, addr, imm) ==
    IF "WriteBack" \notin flags THEN core
    ELSE SetRegOrSP(core, inst.Rn, IF "PostIndex" \in flags THEN (addr + imm) % 2^XBits ELSE addr, FALSE)

Source(core, r, T, flags) == (IF "Float" \in flags THEN core.VRegs[r][1] ELSE core.GPRegs[r]) % 2^(T * ByteBits)
\* A load of less than 128 bits leaves the upper half of the V register.
Loaded(core, r, flags, data) ==
    IF "Float" \in flags THEN [core EXCEPT !.VRegs[r][1] = data] ELSE SetReg(core, r, data)
Extended(data, T, flags) ==
    LET wide == signExtend(data, T * ByteBits)
    IN  CASE "ExtendTo64" \in flags -> wide
          [] "ExtendTo64" \notin flags /\ "ExtendResult" \in flags -> wide % 2^WBits
          [] OTHER -> data
Upper(core, r, data) == [core EXCEPT !.VRegs[r][2] = data]

storeRegImmGeneric(core, inst, T, flags) ==
    LET imm == ImmOffset(inst, T, flags)
        addr == AccessAddr(core, inst, flags, imm)
        data == Source(core, inst.Rt, T, flags)
        stored == CASE "Exclusive" \in flags -> writeAtomic(core, addr, T, data, core.exclusiveData0, inst.Rs)
                    [] "128Bit" \in flags -> write(write(core, addr, T, data), addr + 8, T, core.VRegs[inst.Rt][2])
                    [] OTHER -> write(core, addr, T, data)
    IN  WriteBack(stored, inst, flags, addr, imm)

loadRegImmGeneric(core, inst, T, flags) ==
    LET imm == ImmOffset(inst, T, flags)
        addr == AccessAddr(core, inst, flags, imm)
        low == Loaded(Hit(core, addr), inst.Rt, flags, Extended(inspect(core, addr, T), T, flags))
        loaded == IF "128Bit" \in flags THEN Upper(Hit(low, addr + 8), inst.Rt, inspect(core, addr + 8, T)) ELSE low
        done == WriteBack(loaded, inst, flags, addr, imm)
    IN  IF "Exclusive" \in flags
        THEN [done EXCEPT !.exclusiveAccess = TRUE, !.exclusiveAccessAddr = addr,
                          !.exclusiveData0 = done.GPRegs[inst.Rt], !.exclusiveData1 = 0]
        ELSE done

storePairGeneric(core, inst, T, flags) ==
    LET imm == PairOffset(inst, T, flags)
        addr == AccessAddr(core, inst, flags, imm)
        whole(r) == IF "Float" \in flags THEN core.VRegs[r][1] ELSE core.GPRegs[r]
        first == write(core, addr, T, whole(inst.Rt))
        stored == CASE "128Bit" \in flags ->
                         write(write(write(first, addr + 8, T, core.VRegs[inst.Rt][2]),
                                     addr + 16, T, core.VRegs[inst.Rt2][1]), addr + 24, T, core.VRegs[inst.Rt2][2])
                    [] "Exclusive" \in flags /\ T = 4 ->
                         writeAtomic(core, addr, 8, whole(inst.Rt) | Shl(whole(inst.Rt2), WBits), core.exclusiveData0, inst.Rs)
                    [] "Exclusive" \in flags /\ T = 8 ->
                         writeAtomic128(core, addr, whole(inst.Rt), whole(inst.Rt2),
                                        core.exclusiveData0, core.exclusiveData1, inst.Rs)
                    [] OTHER -> write(first, addr + T, T, whole(inst.Rt2))
    IN  WriteBack(stored, inst, flags, addr, imm)

loadPairGeneric(core, inst, T, flags) ==
    LET imm == PairOffset(inst, T, flags)
        addr == AccessAddr(core, inst, flags, imm)
        half(i) == inspect(core, addr + i * T, T)
        second == IF "128Bit" \in flags THEN 2 ELSE 1
        hit == {addr + i * T : i \in 0 .. (2 * second - 1)} \cap gMemBreakpoints # {}
        one == Loaded([core EXCEPT !.interrupts = @ \cup IF hit THEN {"DEBUG_BREAK"} ELSE {}], inst.Rt, flags, half(0))
        upper == IF "128Bit" \in flags THEN Upper(one, inst.Rt, half(1)) ELSE one
        two == Loaded(upper, inst.Rt2, flags, half(second))
        loaded == IF "128Bit" \in flags THEN Upper(two, inst.Rt2, half(3)) ELSE two
        marked == [loaded EXCEPT !.exclusiveAccess = TRUE, !.exclusiveAccessAddr = addr,
                                 !.exclusiveData0 = IF T = 4 THEN half(0) | Shl(half(1), WBits) ELSE half(0),
                                 !.exclusiveData1 = IF T = 4 THEN 0 ELSE half(1)]
    IN  WriteBack(IF "Exclusive" \in flags THEN marked ELSE loaded, inst, flags, addr, imm)

\* inst.option is the extension (bit 0: 64-bit index, bit 2: signed), inst.S
\* whether the index is scaled; T is 8 in the 128-bit forms, and so is the scale.
RegOffset(core, inst, T) ==
    LET index == core.GPRegs[inst.Rm]
        word == index % 2^WBits
        extended == CASE testBit(inst.option, 0) -> index
                      [] ~testBit(inst.option, 0) /\ testBit(inst.option, 2) -> signExtend(word, WBits)
                      [] OTHER -> word
    IN  Mul(extended, IF inst.S THEN T ELSE 1)

storeRegOffGeneric(core, inst, T, flags) ==
    LET addr == (RegOrSP(core, inst.Rn) + RegOffset(core, inst, T)) % 2^XBits
        stored == write(core, addr, T, Source(core, inst.Rt, T, flags))
    IN  IF "128Bit" \in flags THEN write(stored, addr + 8, T, core.VRegs[inst.Rt][2]) ELSE stored

loadRegOffGeneric(core, inst, T, flags) ==
    LET addr == (RegOrSP(core, inst.Rn) + RegOffset(core, inst, T)) % 2^XBits
        loaded == Loaded(Hit(core, addr), inst.Rt, flags, Extended(inspect(core, addr, T), T, flags))
    IN  CASE "128Bit" \in flags -> Upper(Hit(loaded, addr + 8), inst.Rt, inspect(core, addr + 8, T))
          [] "128Bit" \notin flags /\ "Float" \in flags -> Upper(loaded, inst.Rt, 0)
          [] OTHER -> loaded

\* inst.off: the offset after signExtend, as an X register
loadRegLiteralGeneric(core, inst, T, flags) ==
    LET addr == (core.PC + inst.off) % 2^XBits
        data == inspect(core, addr, T)
        loaded == Loaded(Hit(core, addr), inst.Rt, flags, IF "ExtendResult" \in flags THEN signExtend(data, WBits) ELSE data)
    IN  IF "128Bit" \in flags THEN Upper(Hit(loaded, addr + 8), inst.Rt, inspect(core, addr + 8, T)) ELSE loaded

-----------------------------------------------------------------------------
\* The template arguments of the handlers: their addressing modes, ...
StoreImm == {}
StorePost == {"WriteBack", "PostIndex", "ImmSigned"}
StorePre == {"WriteBack", "ImmSigned"}
StoreUnscaled == {"ImmSigned"}
StoreExclusive(name) == CASE name = "STXR" -> {"Exclusive"} [] name = "STLXR" -> {"Exclusive", "Ordered"} [] name = "STLR" -> {"Ordered"}
LoadImm == {}
LoadPost == {"WriteBack", "PostIndex", "ImmSigned"}
LoadPre == {"WriteBack", "ImmSigned"}
LoadUnscaled == {"ImmSigned"}
LoadExclusive(name) == CASE name = "LDXR" -> {"Exclusive"} [] name = "LDAXR" -> {"Exclusive", "Ordered"} [] name = "LDAR" -> {"Ordered"}
StorePairMode(mode) == CASE mode = "_post" -> {"WriteBack", "PostIndex"} [] mode = "_pre" -> {"WriteBack"} [] OTHER -> {}
LoadPairMode(mode) == CASE mode = "_post" -> {"WriteBack", "PostIndex"} [] mode = "_pre" -> {"WriteBack"} [] OTHER -> {}

\* ... and the rows <<id, handler, T, flags>> of one mode: the registers it
\* stores, and those it loads, to which the sign extensions are added.
FloatForms(name, mode, handler, flags) ==
    {<<name \o w[1] \o mode \o "_float", handler, w[2], flags \cup {"Float"}>> :
        w \in {<<"8", 1>>, <<"16", 2>>, <<"32", 4>>, <<"64", 8>>}}
    \cup {<<name \o "128" \o mode, handler, 8, flags \cup {"Float", "128Bit"}>>}
IntegerForms(name, mode, handler, flags) ==
    {<<name \o w[1] \o mode, handler, w[2], flags>> : w \in {<<"B", 1>>, <<"H", 2>>, <<"32", 4>>, <<"64", 8>>}}
ExtendingForms(name, mode, handler, flags) ==
    {<<name \o w[1] \o mode, handler, w[2], flags \cup w[3]>> :
        w \in {<<"SB32", 1, {"ExtendResult"}>>, <<"SH32", 2, {"ExtendResult"}>>,
               <<"SB64", 1, {"ExtendResult", "ExtendTo64"}>>, <<"SH64", 2, {"ExtendResult", "ExtendTo64"}>>,
               <<"SW", 4, {"ExtendResult", "ExtendTo64"}>>}}

Stores(name, mode, handler, flags) == IntegerForms(name, mode, handler, flags) \cup FloatForms(name, mode, handler, flags)
Loads(name, mode, handler, flags) == Stores(name, mode, handler, flags) \cup ExtendingForms(name, mode, handler, flags)

\* registerLoadStoreInstructions, section by section.  An instruction that no
\* row names, such as LDPSW or STTR, keeps UNIMPLEMENTED_FUNC.
RegisterExclusive ==
    UNION {IntegerForms(n, "", "storeRegImm", StoreExclusive(n)) : n \in {"STXR", "STLXR", "STLR"}}
    \cup UNION {IntegerForms(n, "", "loadRegImm", LoadExclusive(n)) : n \in {"LDXR", "LDAXR", "LDAR"}}
    \cup {<<n[1] \o w[1], n[2], w[2], {"Exclusive"}>> :
            n \in {<<"STXP", "storePair">>, <<"STLXP", "storePair">>, <<"LDXP", "loadPair">>, <<"LDAXP", "loadPair">>},
            w \in {<<"32", 4>>, <<"64", 8>>}}
RegisterLiteral ==
    {<<"LDR" \o w[1] \o "_literal" \o w[2], "loadRegLiteral", w[3], w[4]>> :
        w \in {<<"32", "", 4, {}>>, <<"64", "", 8, {}>>, <<"SW", "", 4, {"ExtendResult"}>>, <<"32", "_float", 4, {"Float"}>>,
               <<"64", "_float", 8, {"Float"}>>, <<"128", "", 8, {"Float", "128Bit"}>>}}
RegisterPair ==
    {<<n[1] \o w[1] \o n[2] \o w[2], n[3], w[3], n[4] \cup w[4]>> :
        n \in UNION {{<<"ST" \o m[1], m[2], "storePair", StorePairMode(m[2])>>, <<"LD" \o m[1], m[2], "loadPair", LoadPairMode(m[2])>>} :
                        m \in {<<"NP", "">>, <<"P", "_post">>, <<"P", "_offset">>, <<"P", "_pre">>}},
        w \in {<<"32", "", 4, {}>>, <<"64", "", 8, {}>>, <<"32", "_float", 4, {"Float"}>>, <<"64", "_float", 8, {"Float"}>>,
               <<"128", "", 8, {"Float", "128Bit"}>>}}
RegisterUnscaled == Stores("STUR", "", "storeRegImm", StoreUnscaled) \cup Loads("LDUR", "", "loadRegImm", LoadUnscaled)
RegisterPost == Stores("STR", "_post", "storeRegImm", StorePost) \cup Loads("LDR", "_post", "loadRegImm", LoadPost)
RegisterPre == Stores("STR", "_pre", "storeRegImm", StorePre) \cup Loads("LDR", "_pre", "loadRegImm", LoadPre)
RegisterRegOff == Stores("STR", "_reg", "storeRegOff", {}) \cup Loads("LDR", "_reg", "loadRegOff", {})
RegisterImm == Stores("STR", "_imm", "storeRegImm", StoreImm) \cup Loads("LDR", "_imm", "loadRegImm", LoadImm)

registerLoadStoreInstructions ==
    RegisterExclusive \cup RegisterLiteral \cup RegisterPair \cup RegisterUnscaled \cup RegisterPost \cup RegisterPre
    \cup RegisterRegOff \cup RegisterImm
    \cup {<<"PRFM" \o mode, "nop">> : mode \in {"_imm", "_literal", "_reg", "_unscaled"}}
=============================================================================
