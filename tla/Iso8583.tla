------------------------------- MODULE Iso8583 -------------------------------
(***************************************************************************)
(* The translation of messages between the card network and the bank's     *)
(* host, Iso8583toOasis_INT.c of the ATM switch.  A message is a bitmap,   *)
(* here the set of its field numbers, and the fields in ascending order,   *)
(* each of a fixed length or behind a length of two or three digits.       *)
(* Bytes are numbers: a digit is itself, a byte of the chip data 0 to 255, *)
(* any other character whatever NetworkMessages says; EQ is the separator  *)
(* of track 2, BLANK the space.  The headers' constants and times and      *)
(* cards whose number begins with zeros are left out, and texts are short  *)
(* enough for the buffers.                                                 *)
(***************************************************************************)
EXTENDS Integers, Sequences, FiniteSets, SequencesExt

CONSTANTS
    NetworkMessages,   \* what the network sends: [type, bits: field number -> bytes]
    EQ, BLANK

VARIABLES
    received,   \* the message read last, << >> at first
    MsgData,    \* MsgData_INT: what the fields say, by the host's names
    host,       \* trdat: the message to the host
    SendBuffer  \* the answer to a network message

isoVars == <<received, MsgData, host, SendBuffer>>

IsoInit == received = << >> /\ MsgData = << >> /\ host = << >> /\ SendBuffer = << >>

\* 99 and 999: a length of two or three digits; 0: not in the table.
DataLength ==
    [i \in 2 .. 128 |->
       CASE i \in {2, 32, 35, 45, 62, 100, 102, 103} -> 99
         [] i \in {36, 48, 54, 55, 60, 63, 104, 105, 120} -> 999
         [] i \in {25, 39} -> 2
         [] i \in {19, 22, 23, 49, 50, 51} -> 3
         [] i \in {13, 14, 15, 18} -> 4
         [] i \in {3, 11, 12, 38} -> 6
         [] i \in {9, 10, 41, 52} -> 8
         [] i = 7 -> 10
         [] i \in {4, 5, 6, 37} -> 12
         [] i = 42 -> 15 [] i = 53 -> 16 [] i = 44 -> 25 [] i = 43 -> 40
         [] i \in {90, 95} -> 42
         [] OTHER -> 0]

NetworkLength ==
    [i \in 2 .. 127 |-> CASE i = 7 -> 10 [] i = 11 -> 6 [] i = 32 -> 99
                          [] i = 39 -> 2 [] i = 70 -> 3 [] OTHER -> 0]

Prefix(length) == CASE length = 99 -> 2 [] length = 999 -> 3 [] OTHER -> 0

Digits(n, count) == [k \in 1 .. count |-> (n \div 10 ^ (count - k)) % 10]

atoi(ds) == FoldLeft(LAMBDA n, d : 10 * n + d, 0, ds)

Ascending(S) == SelectSeq([k \in 1 .. 127 |-> k + 1], LAMBDA i : i \in S)

\* The network's side: the fields as they are sent.
Wire(length, bits) ==
    FlattenSeq([k \in 1 .. Cardinality(DOMAIN bits) |->
        LET i == Ascending(DOMAIN bits)[k]
        IN  Digits(Len(bits[i]), Prefix(length[i])) \o bits[i]])

-----------------------------------------------------------------------------
(* Reading                                                                 *)

\* bit2str and fc_2bitstrTO16bitstr: two digits for each byte.
Hex(bytes) == FlattenSeq([k \in DOMAIN bytes |-> <<bytes[k] \div 16, bytes[k] % 16>>])

\* RecvBuffer is zeroed before each message.
Bytes(body, at, n) == [k \in 1 .. n |-> IF at + k <= Len(body) THEN body[at + k] ELSE 0]

ReadField_twoDigits(length, body, acc, i) ==
    LET digits == Bytes(body, acc.at, IF length[i] > 90 THEN 2 ELSE 0)
        n      == IF digits = << >> THEN length[i] ELSE atoi(digits)
        raw    == Bytes(body, acc.at + Len(digits), n)
    IN  [at   |-> acc.at + Len(digits) + n,
         Data |-> [acc.Data EXCEPT ![i] = digits \o IF i = 55 THEN Hex(raw) ELSE raw]]

ReadField(length, body, acc, i) ==
    LET digits == Bytes(body, acc.at, Prefix(length[i]))
        n      == IF digits = << >> THEN length[i] ELSE atoi(digits)
        raw    == Bytes(body, acc.at + Len(digits), n)
    IN  [at   |-> acc.at + Len(digits) + n,
         Data |-> [acc.Data EXCEPT ![i] = digits \o IF i = 55 THEN Hex(raw) ELSE raw]]

\* HMERecv.Data, every bit of the bitmap in turn.
ReadFields(length, bits, body) ==
    FoldLeft(LAMBDA acc, i : ReadField(length, body, acc, i),
             [at |-> 0, Data |-> [i \in DOMAIN length |-> << >>]],
             Ascending(bits \ {1})).Data

-----------------------------------------------------------------------------
(* The host's names                                                        *)

\* As much of text as there is from one place to another.
Slice(text, from, to) == SubSeq(text, from, Min({to, Len(text)}))

\* A field without its length.
Text(Data, i) == SubSeq(Data[i], 1 + Prefix(DataLength[i]), Len(Data[i]))

UpToEq(track2) ==
    LET at == {k \in DOMAIN track2 : track2[k] = EQ}
    IN  IF at = {} THEN track2 ELSE SubSeq(track2, 1, Min(at) - 1)

getPAN(track2) == UpToEq(track2)

\* setSmartDecrypt: whatever the block, the account and the key say.
setSmartDecrypt(block, account) == <<block, account>>

IsTransfer(pcode) == IsPrefix(<<4, 3>>, pcode) \/ IsPrefix(<<9, 1>>, pcode)

CopiedAlways == {3, 7, 11, 12, 13, 15, 18, 32, 35, 37, 38, 39, 41, 42, 43, 49, 90, 102, 103}

CopiedForTransfers == {14, 19, 22, 25, 33, 48, 100}

\* 3 + 20 characters on, where 54 holds more than one balance.
Balance(Data) ==
    IF IsPrefix(<<0, 2, 0>>, Data[54]) THEN Text(Data, 54) ELSE SubSeq(Data[54], 24, Len(Data[54]))

Put(buffer, at, text) ==
    [k \in DOMAIN buffer |-> IF k - at \in DOMAIN text THEN text[k - at] ELSE buffer[k]]

Blanks(n) == [k \in 1 .. n |-> BLANK]

\* Field 62, 60 and 63 side by side; where 63 is missing the blanks start at 50.
Filler(Data) ==
    LET with62 == Put(Blanks(76), 0, Text(Data, 62))
        with60 == Put(with62, 10, Text(Data, 60))
    IN  IF Text(Data, 63) # << >> THEN Put(with60, 60, Text(Data, 63))
        ELSE Put(with60, 50, Blanks(16))

\* Amounts, rates and currencies at their places behind the first 910 characters.
Orders(Data) ==
    FoldLeft(LAMBDA b, p : Put(b, p[2], Data[p[1]]), Blanks(46),
             << <<5, 0>>, <<6, 12>>, <<9, 24>>, <<10, 32>>, <<50, 40>>, <<51, 43>> >>)

\* A card with a chip: its data, or the service code in track 2.
Medium(Data) ==
    LET track2 == Text(Data, 35)
        code   == Len(UpToEq(track2)) + 6
    IN  IF \/ Text(Data, 55) # << >>
           \/ code \in DOMAIN track2 /\ track2[code] \in {2, 6}
        THEN "IC" ELSE "CD"

makeOasisAtmMsg(m) ==
    LET bits  == DOMAIN m.bits
        Data  == ReadFields(DataLength, bits, Wire(DataLength, m.bits))
        pcode == Data[3]
        full  == m.type \in {"0200", "0420"} /\ IsTransfer(pcode)
    IN  [type |-> m.type,
         bit  |-> [i \in CopiedAlways |-> Text(Data, i)]
                    @@ [i \in CopiedForTransfers |-> IF full THEN Text(Data, i) ELSE << >>]
                    @@ (2 :> IF Data[2] # << >> THEN Text(Data, 2) ELSE getPAN(Text(Data, 35)))
                    @@ (4 :> Data[4]) @@ (54 :> Balance(Data)) @@ (104 :> Text(Data, 54))
                    @@ (120 :> IF IsTransfer(pcode) THEN Text(Data, 120) ELSE << >>),
         pin     |-> IF m.type = "0200" THEN setSmartDecrypt(Data[52], Text(Data, 2)) ELSE << >>,
         newpin  |-> IF m.type = "0200" /\ IsPrefix(<<9, 4>>, pcode)
                     THEN setSmartDecrypt(Text(Data, 105), Text(Data, 2)) ELSE << >>,
         chip    |-> Data[55],
         card    |-> Data[23],
         medium  |-> Medium(Data),
         filler  |-> Filler(Data),
         atm_ord |-> Orders(Data)]

-----------------------------------------------------------------------------
(* The message to the host                                                 *)

\* recv_svc_c and target_svc_trx_c by the first two digits of the processing code.
Service(pcode) ==
    LET kind == Slice(pcode, 1, 2) IN
    CASE kind = <<3, 0>> -> "SGAT9460A001"
      [] kind \in {<<0, 1>>, <<0, 0>>} -> "SGAT9461A001"
      [] kind = <<4, 0>> -> "SGAT9463A001"
      [] kind \in {<<3, 8>>, <<9, 4>>} -> "SGAT9464A001"
      [] kind \in {<<4, 3>>, <<9, 1>>} -> "SGAT9463B001"
      [] OTHER -> "blank"

Common(d) ==
    [data       |-> d,
     result     |-> IF d.bit[39] = << >> THEN <<0, 0>> ELSE d.bit[39],
     cashcard   |-> getPAN(d.bit[35]),
     trcode     |-> d.bit[3],
     amount     |-> d.bit[4],
     seqno      |-> Slice(d.bit[11], 3, 6)]

\* An answer goes back by the header that its request was kept under.
makeHostSendMsgAtm(d) ==
    Common(d) @@ [kind |-> "R", branch |-> Slice(d.bit[41], 1, 4), service |-> "as requested"]

makeHostSendMsgExtAtm(d) ==
    Common(d) @@ [kind |-> "S", branch |-> <<0, 0, 0, 0>>, service |-> Service(d.bit[3])]

\* runBizProc: one message of the network, but for those of the administration.
Iso8583toOasis(m) ==
    /\ m.type \notin {"0800", "0810"}
    /\ received' = m
    /\ MsgData' = makeOasisAtmMsg(m)
    /\ host' = IF m.type \in {"0200", "0420"} THEN makeHostSendMsgExtAtm(MsgData')
               ELSE makeHostSendMsgAtm(MsgData')
    /\ UNCHANGED SendBuffer

-----------------------------------------------------------------------------
(* Network management                                                      *)

\* Sixteen bytes of bitmap, bit 1 always set; a field is there if it is not empty.
makeBitmap2(Data) ==
    LET bits == {i \in DOMAIN Data : Data[i] # << >>}
        body == FlattenSeq([k \in 1 .. Cardinality(bits) |-> Data[Ascending(bits)[k]]])
    IN  [length |-> 4 + 16 + Len(body), bits |-> bits \cup {1}, body |-> body]

\* The request comes back with a response code; its fields keep their lengths.
recvNetworkMgmt(m) ==
    /\ m.type \in {"0800", "0810"}
    /\ received' = m
    /\ LET Data == ReadFields(NetworkLength, DOMAIN m.bits, Wire(NetworkLength, m.bits))
           back == [i \in {7, 11, 32, 39, 70} |-> IF i = 39 THEN <<0, 0>> ELSE Data[i]]
       IN  SendBuffer' = IF m.type = "0800" THEN [type |-> "0810"] @@ makeBitmap2(back) ELSE SendBuffer
    /\ UNCHANGED <<MsgData, host>>

\* Everything is cleared before a message is read (initCoreStructure, and the memsets
\* of the functions above): a behaviour reads one.
IsoNext == received = << >> /\ \E m \in NetworkMessages : Iso8583toOasis(m) \/ recvNetworkMgmt(m)

IsoSpec == IsoInit /\ [][IsoNext]_isoVars

-----------------------------------------------------------------------------
(* Properties                                                              *)

Said(m, i) == IF i \in DOMAIN m.bits THEN m.bits[i] ELSE << >>

FieldsSurvive(m) ==
    /\ \A i \in CopiedAlways \cup {4} : MsgData.bit[i] = Said(m, i)
    /\ \A i \in CopiedForTransfers : MsgData.bit[i] \in {<< >>, Said(m, i)}
    /\ MsgData.bit[2] \in {Said(m, 2), UpToEq(Said(m, 35))}
    /\ MsgData.chip = (IF 55 \in DOMAIN m.bits THEN Digits(Len(m.bits[55]), 3) ELSE << >>)
                        \o Hex(Said(m, 55))
    /\ SubSeq(MsgData.filler, 61, 60 + Len(Said(m, 63))) = Said(m, 63)
    /\ SubSeq(MsgData.atm_ord, 1, Len(Said(m, 5))) = Said(m, 5)
    /\ SubSeq(MsgData.atm_ord, 44, 43 + Len(Said(m, 51))) = Said(m, 51)
    /\ host.trcode = Said(m, 3) /\ host.amount = Said(m, 4)
    /\ host.seqno = Slice(Said(m, 11), 3, 6)

AnswerEchoes(m) ==
    LET Data == ReadFields(NetworkLength, SendBuffer.bits, SendBuffer.body) IN
    /\ SendBuffer.length = 20 + Len(SendBuffer.body)
    /\ 39 \in SendBuffer.bits /\ Data[39] = <<0, 0>>
    /\ \A i \in {7, 11, 32, 70} :
          i \in SendBuffer.bits <=> i \in DOMAIN m.bits
    /\ \A i \in {7, 11, 32, 70} \cap DOMAIN m.bits :
          Data[i] = Digits(Len(m.bits[i]), Prefix(NetworkLength[i])) \o m.bits[i]

\* Whatever fields a message has, with either bitmap, each arrives under its own
\* name, unshifted by what comes before it, and what is missing is blank; what the
\* host's message repeats of it is the same card, amount and trace number.  The
\* answer to a network message, read as such a message is read, repeats what was
\* said and adds the response code, and its length is that of what follows.
\* Iso8583toOasis_INT.c:57-835.
MessagesSurvive ==
    received # << >> =>
        IF received.type = "0800" THEN AnswerEchoes(received)
        ELSE received.type # "0810" => FieldsSurvive(received)
=============================================================================
