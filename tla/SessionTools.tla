---------------------------- MODULE SessionTools ----------------------------
(***************************************************************************)
(* The tools that create, configure, inspect and end sessions.             *)
(***************************************************************************)
EXTENDS ToolScript

\* The session is created with the path of its file, and closed into it.
startauthsession_process_input_data ==
    <<Optional(Input), Optional(Input), Optional(Input), Input>>
startauthsession ==
    Tool(<<Options>> \o startauthsession_process_input_data
            \o <<Open("session"), Returning(Close("session"))>>,
         <<>>)

\* flushcontext has three forms: by property, by session file, by handle.
\* The loop over the handles stops at the first that cannot be flushed.
flush_contexts_tpm2 == <<Bulk("flushListed")>>
flushcontext_loaded == Tool(<<Bulk("listLoaded")>> \o flush_contexts_tpm2, <<>>)
flushcontext_saved == Tool(<<Bulk("listSaved")>> \o flush_contexts_tpm2, <<>>)
\* The session file is restored as final; the result of the close is dropped.
flushcontext_session ==
    Tool(<<Options, RestoreFinal("session"), Ignored(Close("session"))>>, <<>>)
flushcontext_handle ==
    Tool(<<Options, Bulk("listOne"), Bulk("flushListed")>>, <<>>)

sessionconfig_process_input == <<Restore("session")>>
sessionconfig_process_output == <<Command>>
sessionconfig ==
    Tool(<<Options>> \o sessionconfig_process_input
            \o sessionconfig_process_output,
         <<Close("session")>>)

policyrestart == Tool(<<Restore("session"), Command>>, <<Close("session")>>)

\* The session may also be given as a handle.
getpolicydigest_process_inputs == <<Input, Optional(Restore("session"))>>
getpolicydigest_outputs == <<Command, Output>>
getpolicydigest ==
    Tool(<<Options>> \o getpolicydigest_process_inputs
            \o getpolicydigest_outputs,
         <<Close("session")>>)

\* Each close overwrites the rc of the one before: only the last one counts.
getsessionauditdigest_process_inputs ==
    <<Restore("session")>> \o ObjectAuth("auth") \o ObjectAuth("auth2") \o <<Command>>
getsessionauditdigest_onrun ==
    <<Options>> \o getsessionauditdigest_process_inputs \o <<Command, Output>>
getsessionauditdigest ==
    Tool(getsessionauditdigest_onrun,
         <<Resetting(Close("session")), Resetting(Close("auth2")),
           Resetting(Close("auth"))>>)

\* The second close is only looked at when the first one failed.
getcommandauditdigest_onrun ==
    <<Options>> \o ObjectAuth("auth") \o ObjectAuth("auth2")
        \o <<Command, Command, Output>>
getcommandauditdigest ==
    Tool(getcommandauditdigest_onrun,
         <<Close("auth2"), Resetting(Ignored(Close("auth")))>>)

SessionTools ==
    [startauthsession |-> startauthsession,
     flushcontext_loaded |-> flushcontext_loaded,
     flushcontext_saved |-> flushcontext_saved,
     flushcontext_session |-> flushcontext_session,
     flushcontext_handle |-> flushcontext_handle,
     sessionconfig |-> sessionconfig,
     policyrestart |-> policyrestart,
     getpolicydigest |-> getpolicydigest,
     getsessionauditdigest |-> getsessionauditdigest,
     getcommandauditdigest |-> getcommandauditdigest]
=============================================================================
