------------------------------ MODULE NvTools -------------------------------
(***************************************************************************)
(* The tools on NV indices.  All of them authorise through one hierarchy   *)
(* or index object, in the slot "auth".                                    *)
(***************************************************************************)
EXTENDS ToolScript

\* --cphash: the session of the authorisation is left open.
UnlessCpHash == <<CloseUnlessCpHash("auth")>>

nvincrement == Tool(ObjectAuth("auth") \o <<Command, Output>>, UnlessCpHash)
nvreadlock == Tool(ObjectAuth("auth") \o <<Command, Output>>, UnlessCpHash)
nvwritelock == Tool(<<Input>> \o ObjectAuth("auth") \o <<Command, Output>>, UnlessCpHash)
nvsetbits ==
    Tool(<<Options, Input>> \o ObjectAuth("auth") \o <<Command, Output>>, UnlessCpHash)

\* An index with policydelete needs a policy session, of type policy.
nvundefine ==
    Tool(<<Command>> \o ObjectAuth("auth")
            \o <<Optional(Restore("session")), Input, Command, Output>>,
         <<CloseUnlessCpHash("session"), CloseUnlessCpHash("auth")>>)

nvread_nv_read == <<Command, Output>>
nvread == Tool(ObjectAuth("auth") \o nvread_nv_read, <<Close("auth")>>)

\* The size is checked against the index before, and written in chunks.
nvwrite_is_input_options_args_valid == <<Options>>
nvwrite_nv_write == <<Command, Command, Output>>
nvwrite ==
    Tool(nvwrite_is_input_options_args_valid \o ObjectAuth("auth") \o nvwrite_nv_write,
         <<Close("auth")>>)

nvreadpublic == Tool(<<Command, Command, Output>>, <<>>)

nvextend_process_inputs == ObjectAuth("auth") \o AuxSessionsSetup(2) \o <<Input>>
nvextend_outputs == HashedCommand \o <<Output>>
nvextend ==
    Tool(<<Input>> \o nvextend_process_inputs \o nvextend_outputs,
         <<Close("auth")>> \o CloseAux(2))

\* With no index given the first one no handle of the TPM uses is taken.
nvdefine_handle_no_index_specified == <<Optional(Command), Optional(Command)>>
nvdefine_validate_size == <<Input>>
nvdefine_process_inputs ==
    <<Input>> \o ObjectAuth("auth") \o AuxSessionsSetup(2)
        \o nvdefine_handle_no_index_specified \o nvdefine_validate_size
        \o <<Optional(Input)>>
nvdefine_outputs == HashedCommand \o <<Output>>
nvdefine ==
    Tool(nvdefine_process_inputs \o nvdefine_outputs, <<Close("auth")>> \o CloseAux(2))

nvcertify_process_nvcertify_input ==
    ObjectAuth("auth") \o ObjectAuth("auth2") \o <<Command, Optional(Input)>>
nvcertify ==
    Tool(<<Options>> \o nvcertify_process_nvcertify_input \o <<Command, Output>>,
         <<CloseUnlessCpHash("auth"), CloseUnlessCpHash("auth2")>>)

NvTools ==
    [nvincrement |-> nvincrement, nvreadlock |-> nvreadlock,
     nvwritelock |-> nvwritelock, nvsetbits |-> nvsetbits,
     nvundefine |-> nvundefine, nvread |-> nvread, nvwrite |-> nvwrite,
     nvreadpublic |-> nvreadpublic, nvextend |-> nvextend,
     nvdefine |-> nvdefine, nvcertify |-> nvcertify]
=============================================================================
