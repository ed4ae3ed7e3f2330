----------------------------- MODULE MCWidgets ------------------------------
EXTENDS WidgetSupervision
=============================================================================
