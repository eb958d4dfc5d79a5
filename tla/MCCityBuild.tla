----------------------------- MODULE MCCityBuild -----------------------------
EXTENDS CityBuild

CONSTANTS b1, b2
==============================================================================
