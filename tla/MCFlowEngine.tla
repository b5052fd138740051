---------------------------- MODULE MCFlowEngine ----------------------------
EXTENDS FlowEngine
============================================================================
