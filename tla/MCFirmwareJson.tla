--------------------------- MODULE MCFirmwareJson ---------------------------
(***************************************************************************)
(* Firmware with and without each thing the report mentions, texts with    *)
(* every kind of character, fields with and without a NUL, an MCFG too     *)
(* short for its fixed part, with part of a window, and with two windows;  *)
(* numbers of one to three digits.                                         *)
(***************************************************************************)
EXTENDS FirmwareJson

Vendors == {NULL, <<"p", "quote", "backslash", "other">>, <<"backslash">>}

RsdpsAndTables ==
    {<<NULL, <<>>>>}
    \cup {<<[address |-> 9, revision |-> 2, rsdt |-> 0, xsdt |-> 8], t>> :
            t \in {<<>>, <<<<"p", "p">>>>, <<<<"p", "p">>, <<"p", "p">>>>}}

TwoWindows == <<[base |-> 7, segment |-> 0, startBus |-> 0, endBus |-> 255],
              [base |-> 6, segment |-> 1, startBus |-> 10, endBus |-> 20]>>

Mcfgs == {NULL} \cup [length : {40, 66, 76}, windows : {TwoWindows}]

Lab(magic, whole, platformId) ==
    [magic |-> magic, whole |-> whole, version |-> 1, platformId |-> platformId,
     buildMarker |-> <<"backslash", "other">>]

Labs ==
    {NULL, Lab(FALSE, TRUE, <<"p", "p">>), Lab(TRUE, FALSE, <<"p", "p">>)}
    \cup {Lab(TRUE, TRUE, id) : id \in {<<"p", "p">>, <<"quote", "NUL">>, <<"NUL", "p">>}}

MCFirmwares ==
    { [vendor |-> v, major |-> 2, minor |-> 70, rsdp |-> rt[1], tables |-> rt[2],
       madt |-> madt, mcfg |-> mcfg, lab |-> lab, smbios32 |-> 0, smbios64 |-> 5,
       memory |-> <<10, 48, 100, 0, 9, 1, 0, 7>>] :
        v \in Vendors, rt \in RsdpsAndTables,
        madt \in {NULL, [length |-> 120, localApicAddress |-> 3, flags |-> 1]},
        mcfg \in Mcfgs, lab \in Labs }

\* Firmware whose XSDT has a NULL entry: what is listed for it is what lies on
\* page zero, zeroes here.
MCNullEntryFirmwares ==
    { [f EXCEPT !.tables = Append(@, <<"NUL", "NUL">>)] : f \in {g \in MCFirmwares : g.rsdp # NULL} }
=============================================================================
