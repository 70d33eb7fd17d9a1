---- MODULE MCForwardPass ----
EXTENDS ForwardPass
MCTokens == {1, 2}
MCPrompts == {<<2, 1, 1, 2>>, <<2, 1, 1>>}
MCLayers == <<"gdn", "attn">>
MCRouting == (1 :> <<2, 1>>) @@ (2 :> <<1, 3>>)
MCFailingOps == {"gdn_gate", "attn_partial", "readback"}
====
