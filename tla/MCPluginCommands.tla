-------------------------- MODULE MCPluginCommands --------------------------
(* PluginCommands with reports that connect the plugin, start a preview    *)
(* build and settle it again.                                              *)
EXTENDS PluginCommands

Connected(preview, differs) ==
  [runtime |-> "connected", project |-> [preview |-> preview, bake |-> "absent"],
   differs |-> differs]

MCReports == { Connected("settled", FALSE), Connected("building", FALSE) }
=============================================================================
