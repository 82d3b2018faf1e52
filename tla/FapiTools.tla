------------------------------ MODULE FapiTools -----------------------------
(***************************************************************************)
(* The tools of tools/fapi.  tss2_template.c parses the options, opens the *)
(* feature API and sets its callbacks, then the tool checks that it was    *)
(* given what it needs, reads its inputs, makes one FAPI call and writes   *)
(* the results to files.  What a tool frees at each failure is its own.    *)
(***************************************************************************)
EXTENDS CallScript

\* main: options, Fapi_Initialize, Fapi_Set...CB.  tss2_tool_onrun: the
\* required options, and only one input and one output on "-".
Main == <<Call("main", "none"), Call("options", "none")>>

\* open_read_and_close, ask_for_password
Read(i) == Call("read", Inputs[i])
Ask == IfGiven(Call("ask", "pw"))
\* open_write_and_close under "if (ctx.option && pointer)"
Write(i) == Call("write", Outputs[i])

\* The FAPI call sets the first n outputs; bufs are freed on either result.
Fapi(n, may, bufs) ==
    [Either(bufs, Call("dispatch", "none"))
        EXCEPT !.sets = Upto(Outputs, n), !.may = may]

Opts(steps) == {"force"} \cup UNION {steps[i].when : i \in 1..Len(steps)}
Tss2(steps, wild) == Script(Main \o steps, Opts(steps), wild)

\* The call alone.
Plainly == Tss2(<<Fapi(0, {}, {})>>, {})
\* One result to one file.
OneOutput(name) == Tss2(<<Fapi(1, {}, {}), Either({"out1"}, Write(1))>>, name)

-----------------------------------------------------------------------------
tss2_nvsetbits == Plainly
tss2_writeauthorizenv == Plainly
tss2_setdescription == Plainly
tss2_provision == Plainly
tss2_nvincrement == Plainly
tss2_delete == Plainly

tss2_exportkey == OneOutput({"out1"})
tss2_exportpolicy == OneOutput({"out1"})
tss2_getdescription == OneOutput({"out1"})
tss2_getcertificate == OneOutput({"out1"})
tss2_getinfo == OneOutput({"out1"})
tss2_getrandom == OneOutput({"out1"})
tss2_list == OneOutput({})

\* The data may be missing or not wanted.
tss2_unseal ==
    Tss2(<<Fapi(1, {"out1"}, {}), Either({"out1"}, IfGiven(Write(1)))>>, {"out1"})
tss2_getappdata ==
    Tss2(<<Fapi(1, {"out1"}, {}), Freeing({"out1"}, IfGiven(Write(1)))>>, {"out1"})
\* The pointer is freed after a failed call too, whatever it holds.
tss2_getplatformcertificates ==
    Tss2(<<Losing({"out1"}, Fapi(1, {"out1"}, {})), Either({"out1"}, Write(1))>>, {"out1"})
tss2_pcrread ==
    Tss2(<<Fapi(2, {}, {}), Losing(Upto(Outputs, 2), IfGiven(Write(1))),
           Either(Upto(Outputs, 2), IfGiven(Write(2)))>>, Upto(Outputs, 2))
tss2_nvread ==
    Tss2(<<Fapi(2, {"out2"}, {}), Losing({"out1"}, Write(1)),
           Either(Upto(Outputs, 2), IfGiven(Write(2)))>>, {"out1"})
tss2_gettpmblobs ==
    Tss2(<<Fapi(3, {}, {}), Losing({"out1"}, IfGiven(Write(1))),
           Losing(Upto(Outputs, 2), IfGiven(Write(2))),
           Either(Upto(Outputs, 3), IfGiven(Write(3)))>>, Upto(Outputs, 3))

tss2_encrypt ==
    Tss2(<<Read(1), Fapi(1, {}, {"in1"}), Either({"out1"}, Write(1))>>, {"in1", "out1"})
tss2_decrypt ==
    Tss2(<<Read(1), Fapi(1, {}, {"in1"}), Either({"out1"}, Write(1))>>, {"in1", "out1"})
\* certificate, signature, public key
tss2_sign ==
    LET rest(i) == Upto(Outputs, 3) \ Upto(Outputs, i - 1)
        out(i) == Losing(rest(i), Freeing({Outputs[i]}, Write(i)))
    IN  Tss2(<<Read(1), Fapi(3, {"out1"}, {"in1"}),
               IfGiven(out(1)), out(2), IfGiven(out(3))>>, {"in1", "out2", "out3"})
\* quote info, PCR log, signature, certificate.  The PCR list is allocated by
\* the option parser and freed by every later exit.
tss2_quote ==
    LET rest(i) == Upto(Outputs, 4) \ Upto(Outputs, i - 1)
        out(i) == Losing(rest(i), Freeing({Outputs[i]}, Write(i)))
    IN  Script(<<Call("list", "list"), Main[1], Losing({"list"}, Main[2]),
                 Losing({"list"}, IfGiven(Read(1))),
                 Fapi(4, {"out2", "out4"}, {"list", "in1"}),
                 out(1), IfGiven(out(2)), out(3), IfGiven(out(4))>>,
               {"force", "in1", "out2", "out4"}, {"out1", "out3"})

tss2_nvwrite == Tss2(<<Read(1), Fapi(0, {}, {"in1"})>>, {"in1"})
tss2_import == Tss2(<<Read(1), Fapi(0, {}, {"in1"})>>, {"in1"})
tss2_setcertificate == Tss2(<<IfGiven(Read(1)), Fapi(0, {}, {"in1"})>>, {})
tss2_setappdata == Tss2(<<IfGiven(Read(1)), Fapi(0, {}, {"in1"})>>, {})
tss2_authorizepolicy == Tss2(<<IfGiven(Read(1)), Fapi(0, {}, {"in1"})>>, {})
\* Data and log data.
tss2_pcrextend ==
    Tss2(<<Read(1), Losing({"in1"}, IfGiven(Read(2))), Fapi(0, {}, Upto(Inputs, 2))>>, {})
tss2_nvextend ==
    Tss2(<<Read(1), Losing({"in1"}, IfGiven(Read(2))), Fapi(0, {}, Upto(Inputs, 2))>>,
         {"in1"})
tss2_verifysignature ==
    Tss2(<<Read(1), Losing({"in1"}, Read(2)), Fapi(0, {}, Upto(Inputs, 2))>>,
         Upto(Inputs, 2))
\* Qualifying data, signature, quote info, PCR log.
tss2_verifyquote ==
    Tss2(<<IfGiven(Read(1)), Losing({"in1"}, Read(2)), Losing(Upto(Inputs, 2), Read(3)),
           Losing(Upto(Inputs, 3), IfGiven(Read(4))), Fapi(0, {}, Upto(Inputs, 4))>>, {})

tss2_createkey == Tss2(<<Ask, Fapi(0, {}, {"pw"})>>, {})
tss2_createnv == Tss2(<<Ask, Fapi(0, {}, {"pw"})>>, {})
tss2_changeauth == Tss2(<<Ask, Fapi(0, {}, {"pw"})>>, {})
tss2_createseal == Tss2(<<Ask, IfGiven(Read(1)), Fapi(0, {}, {"pw", "in1"})>>, {})

FapiTools ==
    [tss2_nvsetbits |-> tss2_nvsetbits, tss2_writeauthorizenv |-> tss2_writeauthorizenv,
     tss2_setdescription |-> tss2_setdescription, tss2_provision |-> tss2_provision,
     tss2_nvincrement |-> tss2_nvincrement, tss2_delete |-> tss2_delete,
     tss2_exportkey |-> tss2_exportkey, tss2_exportpolicy |-> tss2_exportpolicy,
     tss2_getdescription |-> tss2_getdescription,
     tss2_getcertificate |-> tss2_getcertificate, tss2_getinfo |-> tss2_getinfo,
     tss2_getrandom |-> tss2_getrandom, tss2_list |-> tss2_list,
     tss2_unseal |-> tss2_unseal, tss2_getappdata |-> tss2_getappdata,
     tss2_getplatformcertificates |-> tss2_getplatformcertificates,
     tss2_pcrread |-> tss2_pcrread, tss2_nvread |-> tss2_nvread,
     tss2_gettpmblobs |-> tss2_gettpmblobs, tss2_encrypt |-> tss2_encrypt,
     tss2_decrypt |-> tss2_decrypt, tss2_sign |-> tss2_sign, tss2_quote |-> tss2_quote,
     tss2_nvwrite |-> tss2_nvwrite, tss2_import |-> tss2_import,
     tss2_setcertificate |-> tss2_setcertificate, tss2_setappdata |-> tss2_setappdata,
     tss2_authorizepolicy |-> tss2_authorizepolicy, tss2_pcrextend |-> tss2_pcrextend,
     tss2_nvextend |-> tss2_nvextend, tss2_verifysignature |-> tss2_verifysignature,
     tss2_verifyquote |-> tss2_verifyquote, tss2_createkey |-> tss2_createkey,
     tss2_createnv |-> tss2_createnv, tss2_changeauth |-> tss2_changeauth,
     tss2_createseal |-> tss2_createseal]
=============================================================================
