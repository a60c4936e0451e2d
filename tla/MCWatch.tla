------------------------------- MODULE MCWatch -------------------------------
EXTENDS Watch

MCDetail == {"full", "platform", "x8", "x4"}
MCCheck == { [status |-> "PASS", detail |-> "full"],
             [status |-> "WARN", detail |-> "platform"],
             [status |-> "FAIL", detail |-> "x8"],
             [status |-> "FAIL", detail |-> "x4"] }
=============================================================================
